---- MODULE Spec2Model ----
(***************************************************************************)
(* A model of the rush shell (uky007/rush).                                *)
(*                                                                         *)
(* Part 1 (SpecList): the read-parse-execute loop of main.rs/run_string,   *)
(*   parser::parse's eager `$?` expansion, executor::execute's connector   *)
(*   gating, execute_pipeline's builtin fast path and the builtins         *)
(*   dispatch (is_builtin / try_exec / builtin_exit).                      *)
(* Part 2 (SpecJob): executor::execute_job, one pipeline at a time, with   *)
(*   its file descriptors, inline assignments, child processes, the job    *)
(*   table and the terminal's foreground process group.                    *)
(***************************************************************************)
EXTENDS Integers, Sequences, FiniteSets, TLC

\* ------------------------------------------------------------------------
\* Bounds
\* ------------------------------------------------------------------------

\* Longest command list a line is drawn from.
MaxItems ==
  3

\* Longest pipeline execute_job is called with.
MaxCmds ==
  3

\* Number of child processes the shell spawns in one run.
MaxProcs ==
  3

\* Number of pipelines handed to execute_job in one run.
MaxCalls ==
  1

\* Most redirections written on one command.
MaxRedirs ==
  2

\* Number of child processes spawned from the prompt in one run.
MaxReplProcs ==
  2

\* Number of processes put into the job table in one run of its operations.
MaxTblProcs ==
  4

\* Longest line typed into the editor, in bytes.
MaxBuf ==
  4

\* Number of history entries kept in one run.
MaxHist ==
  2

\* Longest line handed to expand_alias, in words; a longer expansion is left
\* to the model's "capped" position.
MaxLine ==
  3

\* Longest line handed to parse, in tokens.
MaxToks ==
  5

\* Longest glob pattern, in bytes.
MaxPat ==
  4

\* Longest name a glob pattern is matched against, in bytes.
MaxName ==
  2

\* Longest pipeline whose close lists are computed.
MaxPipeline ==
  10

\* Deepest nest of loops, and the largest N of `break N` / `continue N`
\* beyond it.
MaxDepth ==
  3

\* Number of words each `for` loop runs over.
MaxIters ==
  2

\* Longest word handed to expand_braces, in bytes.
MaxWord ==
  6

\* Width in bits of the integers of $((...)); the shell's i64 has 64.
IntBits ==
  4

\* ------------------------------------------------------------------------
\* State
\* ------------------------------------------------------------------------

VARIABLES
  interactive,        \* TRUE: main()'s REPL; FALSE: run_string (rush -c / script)
  rpc,                \* position of the shell: "prompt", "execute", "exited", "panicked"
  list,               \* the CommandList being executed (parser output)
  idx,                \* execute's loop index (1-based)
  last_status,        \* execute's local last_status
  shell_last_status,  \* Shell.last_status
  should_exit,        \* Shell.should_exit
  exit_code,          \* status given to std::process::exit, -1 while running
  trace,              \* history: one record per list item the loop has passed
  jpc,                \* position in execute_job: "idle", "loop", "after", "errwait",
                      \* "fgwait", "returned"
  n,                  \* pipeline.commands.len()
  background,         \* pipeline.background
  ci,                 \* the for loop's command index (1-based)
  pipes,              \* pipes[j] = [r, w], -1 once closed in the parent
  pids,               \* pids[..pid_count]
  pgid,               \* the pipeline's process group, 0 before the first spawn
  spawn_error,        \* execute_job's spawn_error
  error_status,       \* execute_job's error_status
  wi,                 \* index of the next pid the error path waits for
  last_raw_status,    \* wait_for_fg's last_raw_status
  ret,                \* status execute_job returned
  openFds,            \* file descriptors open in the shell process
  env,                \* value of the environment variable X ("unset" if absent)
  procs,              \* child processes: pid -> [pgid, state, raw, reported]
  nextPid,            \* pid the next spawn gets
  jobs,               \* JobTable.jobs
  next_id,            \* JobTable.next_id
  tty,                \* foreground process group of the terminal
  calls,              \* number of execute_job calls since the last prompt
  call,               \* history of the current execute_job call
  set_pipefail,       \* Shell.set_pipefail
  spc,                \* position of main()'s loop: "top", "notify", "read", "reap",
                      \* "exec", "fg", "wait_job", "wait_all", "exited"
  cmd,                \* the command of the line being executed
  wjob,               \* job_id of builtin_fg / builtin_wait
  wpgid,              \* pgid builtin_fg / builtin_wait waits for
  notes,              \* history: the Done notifications printed, in order
  gone,               \* history: the jobs that left the job table
  epc,                \* position of the line editor's caller: "main", "reading",
                      \* "execute", "exited", "panicked"
  buf,                \* LineEditor.buf, as its UTF-8 bytes
  cursor,             \* LineEditor.cursor, a byte offset
  entries,            \* History.entries, oldest first
  nav_index,          \* History.nav_index (0-based; Len(entries) is the line being typed)
  saved_buf,          \* History.saved_buf
  termios,            \* the terminal's attributes: "cooked" or "raw"
  orig,               \* RawMode.orig
  hnav,               \* history: the Up/Down presses since navigation last started
  fpc,                \* position of a function under study: "idle", "call", "done",
                      \* "capped" (its value outgrew the model), "panicked"
  input,              \* the arguments the function was called with
  output              \* the value it has computed so far, its result once "done"

listVars ==
  <<interactive, rpc, list, idx, last_status, shell_last_status, should_exit,
    exit_code, trace>>

jobVars ==
  <<jpc, n, background, ci, pipes, pids, pgid, spawn_error, error_status, wi,
    last_raw_status, ret, openFds, env, procs, nextPid, jobs, next_id, tty, calls,
    call>>

replVars ==
  <<set_pipefail, spc, cmd, wjob, wpgid, notes, gone>>

edVars ==
  <<epc, buf, cursor, entries, nav_index, saved_buf, termios, orig, hnav>>

fnVars ==
  <<fpc, input, output>>

vars ==
  <<listVars, jobVars, replVars, edVars, fnVars>>

\* What the command-list loop leaves alone, and what execute_job does.
notListVars ==
  <<jobVars, replVars, edVars, fnVars>>

notJobVars ==
  <<listVars, replVars, edVars, fnVars>>

\* What the prompt loop and the job-control builtins leave alone, and what
\* the line editor does.
notReplVars ==
  <<listVars, edVars, fnVars>>

notEdVars ==
  <<listVars, jobVars, replVars, fnVars>>

\* What a function under study leaves alone.
notFnVars ==
  <<listVars, jobVars, replVars, edVars>>

\* ------------------------------------------------------------------------
\* Parser: CommandList items and eager `$?` expansion
\* ------------------------------------------------------------------------

Connectors ==
  {"Seq", "And", "Or"}

\* The command words lines are written with, each with the argument lists
\* it is used with.  "ls" stands for any external command.
RawCommands ==
  { [name |-> "true",    args |-> <<>>],
    [name |-> "false",   args |-> <<>>],
    [name |-> "ls",      args |-> <<>>],
    [name |-> "history", args |-> <<>>],
    [name |-> "exit",    args |-> <<>>],
    [name |-> "exit",    args |-> <<"3">>],
    [name |-> "echo",    args |-> <<"$?">>] }

RawItems ==
  { [name |-> c.name, args |-> c.args, connector |-> k] :
      c \in RawCommands, k \in Connectors }

\* Lines that parse to a CommandList: the last item's connector is Seq
\* (parser.rs: a trailing `&&`/`||` is IncompleteInput, the final push uses
\* Connector::Seq).
RawLines ==
  UNION { { l \in [1..len -> RawItems] : l[len].connector = "Seq" } : len \in 1..MaxItems }

\* expand_variables on one word: `$?` becomes the decimal last_status handed
\* to parse; a numeric literal is itself.  Words are kept as numbers.
ExpandWord(w, status) ==
  IF w = "$?" THEN status ELSE 3

\* parse(input, last_status): the tokenizer expands every word of the whole
\* line with the one last_status it was constructed with.
Parse(raw, status) ==
  [k \in 1..Len(raw) |->
     [name      |-> raw[k].name,
      args      |-> [a \in 1..Len(raw[k].args) |-> ExpandWord(raw[k].args[a], status)],
      dollar    |-> (\E a \in 1..Len(raw[k].args) : raw[k].args[a] = "$?"),
      connector |-> raw[k].connector]]

\* ------------------------------------------------------------------------
\* Builtins
\* ------------------------------------------------------------------------

\* builtins::is_builtin
BuiltinNames ==
  {"exit", "cd", "pwd", "echo", "export", "unset",
   "jobs", "fg", "bg", "type", "source", ".",
   "alias", "unalias", "history",
   "command", "builtin", "read", "exec", "wait",
   "true", "false", ":", "return",
   "test", "[", "printf",
   "pushd", "popd", "dirs",
   "trap",
   "break", "continue",
   "local", "shift",
   "set"}

is_builtin(name) ==
  name \in BuiltinNames

\* The match arms of builtins::try_exec; every other name yields None.
TryExecNames ==
  {"exit", "cd", "pwd", "echo", "export", "unset",
   "jobs", "fg", "bg", "type", "source", ".",
   "alias", "unalias",
   "command", "builtin", "read", "exec", "wait",
   "true", ":", "false", "return", "break", "continue",
   "test", "[", "printf",
   "pushd", "popd", "dirs",
   "trap", "local", "shift", "set"}

\* builtin_exit: sets should_exit; status is the argument, or Shell.last_status.
builtin_exit(args, sh_status) ==
  [status |-> IF Len(args) > 0 THEN args[1] ELSE sh_status, exit |-> TRUE]

\* try_exec(shell, args, stdout) for the builtins the lines use.
\* some = FALSE is Option::None.
try_exec(name, args, sh_status, sh_exit) ==
  IF name \notin TryExecNames
    THEN [some |-> FALSE, status |-> 0, exit |-> sh_exit, printed |-> <<>>]
  ELSE IF name = "exit"
    THEN [some |-> TRUE, status |-> builtin_exit(args, sh_status).status,
          exit |-> builtin_exit(args, sh_status).exit, printed |-> <<>>]
  ELSE IF name = "echo"
    THEN [some |-> TRUE, status |-> 0, exit |-> sh_exit, printed |-> args]
  ELSE IF name = "false"
    THEN [some |-> TRUE, status |-> 1, exit |-> sh_exit, printed |-> <<>>]
  ELSE [some |-> TRUE, status |-> 0, exit |-> sh_exit, printed |-> <<>>]

\* Statuses execute_job hands back for an external single command.
ExtStatuses ==
  {0, 1}

\* execute_pipeline for a single foreground command without redirections:
\* a builtin goes through execute_builtin, which unwraps try_exec's Option
\* (None panics); anything else is spawned by execute_job.
execute_pipeline(item, sh_status, sh_exit) ==
  IF is_builtin(item.name)
    THEN LET r == try_exec(item.name, item.args, sh_status, sh_exit)
         IN { [panic |-> ~r.some, status |-> r.status, exit |-> r.exit,
               printed |-> r.printed] }
    ELSE { [panic |-> FALSE, status |-> s, exit |-> sh_exit, printed |-> <<>>] :
             s \in ExtStatuses }

\* ------------------------------------------------------------------------
\* executor::execute
\* ------------------------------------------------------------------------

\* A connector test that forgets `||`.
ShouldSkipNoOr(connector, status) ==
  connector = "And" /\ status # 0

\* The connector test made before item i > 0.
ShouldSkip(connector, status) ==
  \/ connector = "And" /\ status # 0
  \/ connector = "Or" /\ status = 0

InitList ==
  /\ interactive \in BOOLEAN
  /\ rpc = "prompt"
  /\ list = <<>>
  /\ idx = 1
  /\ last_status = 0
  /\ shell_last_status = 0
  /\ should_exit = FALSE
  /\ exit_code = -1
  /\ trace = <<>>

\* main(): the line starts with the word `history`; handle_history runs and
\* nothing is parsed.
ReadHistoryLine ==
  /\ rpc = "prompt" /\ interactive
  /\ \E first \in RawItems :
       /\ first.name = "history"
       /\ shell_last_status' = 0
  /\ UNCHANGED <<interactive, rpc, list, idx, last_status, should_exit, exit_code, trace>>

\* main() / run_string: read one line, parse it with Shell.last_status, and
\* enter execute (whose last_status starts at 0).
ReadLine ==
  /\ rpc = "prompt"
  /\ \E raw \in RawLines :
       /\ interactive => raw[1].name # "history"
       /\ list' = Parse(raw, shell_last_status)
  /\ rpc' = "execute"
  /\ idx' = 1
  /\ last_status' = 0
  /\ trace' = <<>>
  /\ UNCHANGED <<interactive, shell_last_status, should_exit, exit_code>>

\* One iteration of execute's loop whose connector test says `continue`.
ExecuteSkip ==
  /\ rpc = "execute" /\ idx <= Len(list)
  /\ idx > 1 /\ ShouldSkip(list[idx - 1].connector, last_status)
  /\ trace' = Append(trace, [item |-> idx, ran |-> FALSE, name |-> list[idx].name,
                             dollar |-> list[idx].dollar, result |-> 0,
                             printed |-> <<>>, status |-> last_status])
  /\ idx' = idx + 1
  /\ UNCHANGED <<interactive, rpc, list, last_status, shell_last_status,
                 should_exit, exit_code>>

\* One iteration of execute's loop that runs execute_pipeline.
ExecuteItem ==
  /\ rpc = "execute" /\ idx <= Len(list)
  /\ ~(idx > 1 /\ ShouldSkip(list[idx - 1].connector, last_status))
  /\ \E r \in execute_pipeline(list[idx], shell_last_status, should_exit) :
       IF r.panic
         THEN /\ rpc' = "panicked"
              /\ UNCHANGED <<idx, last_status, should_exit, trace>>
         ELSE /\ last_status' = r.status
              /\ should_exit' = r.exit
              /\ trace' = Append(trace, [item |-> idx, ran |-> TRUE, name |-> list[idx].name,
                                         dollar |-> list[idx].dollar,
                                         result |-> r.status,
                                         printed |-> r.printed,
                                         status |-> r.status])
              /\ idx' = idx + 1
              /\ UNCHANGED rpc
  /\ UNCHANGED <<interactive, list, shell_last_status, exit_code>>

\* execute returns; the caller stores the status and tests should_exit.
ExecuteReturn ==
  /\ rpc = "execute" /\ idx > Len(list)
  /\ shell_last_status' = last_status
  /\ IF should_exit
       THEN /\ rpc' = "exited" /\ exit_code' = last_status
            /\ UNCHANGED <<list, idx, last_status, trace>>
       ELSE /\ rpc' = "prompt" /\ UNCHANGED exit_code
            /\ list' = <<>> /\ idx' = 1 /\ last_status' = 0 /\ trace' = <<>>
  /\ UNCHANGED <<interactive, should_exit>>

\* End of input: Ctrl+D at the prompt, or the end of the script.
EndOfInput ==
  /\ rpc = "prompt"
  /\ rpc' = "exited"
  /\ exit_code' = shell_last_status
  /\ UNCHANGED <<interactive, list, idx, last_status, shell_last_status,
                 should_exit, trace>>

NextList ==
  \/ ReadHistoryLine /\ UNCHANGED notListVars
  \/ ReadLine /\ UNCHANGED notListVars
  \/ ExecuteSkip /\ UNCHANGED notListVars
  \/ ExecuteItem /\ UNCHANGED notListVars
  \/ ExecuteReturn /\ UNCHANGED notListVars
  \/ EndOfInput /\ UNCHANGED notListVars

\* ------------------------------------------------------------------------
\* Processes, wait statuses, file descriptors
\* ------------------------------------------------------------------------

\* Shell.shell_pgid; child pids are the numbers above it.
ShellPgid ==
  1

\* Option::None for a file descriptor, and a closed slot of the pipe array.
NoFd ==
  0 - 1

\* stdin, stdout, stderr of the shell.
StdFds ==
  {0, 1, 2}

ENOENT ==
  2

EACCES ==
  13

\* An errno other than ENOENT and EACCES.
ENOMEM ==
  12

SIGINT ==
  2

SIGTSTP ==
  20

\* Exit codes a child may exit with.
ExitCodes ==
  {0, 3}

\* Wait statuses as waitpid writes them.
ExitedRaw(code) ==
  code * 256

SignaledRaw(sig) ==
  sig

StoppedRaw(sig) ==
  sig * 256 + 127

WIFEXITED(raw) ==
  raw % 128 = 0

WEXITSTATUS(raw) ==
  (raw \div 256) % 256

WIFSIGNALED(raw) ==
  (raw % 128) \notin {0, 127}

WTERMSIG(raw) ==
  raw % 128

WIFSTOPPED(raw) ==
  raw % 256 = 127

\* The descriptor open() or pipe() hands out next: the lowest one not open.
LowestFree(open) ==
  CHOOSE f \in 0..Cardinality(open) :
    f \notin open /\ \A g \in 0..(f - 1) : g \in open

\* libc::close on Some(fd) / on a slot >= 0.
CloseFd(open, fd) ==
  open \ {fd}

\* The pipe-creation loop: cnt calls of libc::pipe, each taking the two
\* lowest free descriptors.
RECURSIVE MakePipes(_, _)
MakePipes(cnt, open) ==
  IF cnt = 0 THEN [pipes |-> <<>>, open |-> open]
  ELSE LET prev == MakePipes(cnt - 1, open)
           r == LowestFree(prev.open)
           w == LowestFree(prev.open \cup {r})
       IN [pipes |-> Append(prev.pipes, [r |-> r, w |-> w]),
           open  |-> prev.open \cup {r, w}]

\* The loop that closes every pipe end that is still >= 0.
ClosePipes(ps, open) ==
  open \ ({ps[j].r : j \in 1..Len(ps)} \cup {ps[j].w : j \in 1..Len(ps)})

\* ------------------------------------------------------------------------
\* open_redirect_fds
\* ------------------------------------------------------------------------

RedirectKinds ==
  {"Output", "Append", "Input", "Stderr", "StderrAppend", "FdDup", "HereDoc",
   "HereString"}

\* The redirections commands are written with: kind, and whether the file
\* can be opened (an fd duplication opens no file).
Redirects ==
  { [kind |-> kd, ok |-> b] : kd \in {"Output", "Input"}, b \in BOOLEAN }
    \cup { [kind |-> "Stderr", ok |-> TRUE], [kind |-> "FdDup", ok |-> TRUE] }

RedirectLists ==
  UNION { [1..m -> Redirects] : m \in 0..MaxRedirs }

\* The RedirectFds field a redirection kind fills.
SlotOf(kind) ==
  IF kind \in {"Output", "Append"} THEN "stdout_fd"
  ELSE IF kind \in {"Input", "HereDoc", "HereString"} THEN "stdin_fd"
  ELSE IF kind \in {"Stderr", "StderrAppend"} THEN "stderr_fd"
  ELSE "none"

\* One turn of open_redirect_fds' loop on the accumulated RedirectFds:
\* close the slot's previous descriptor, then open the target; a failed
\* open returns Err(1) at once, with the other slots' descriptors open.
OpenOne(acc, r) ==
  LET slot == SlotOf(r.kind)
  IN IF slot = "none" THEN acc
     ELSE LET closed == IF acc[slot] # NoFd THEN CloseFd(acc.open, acc[slot])
                        ELSE acc.open
              fd == LowestFree(closed)
          IN IF r.ok
               THEN [acc EXCEPT ![slot] = fd, !.open = closed \cup {fd}]
               ELSE [acc EXCEPT !.ok = FALSE, !.status = 1, !.open = closed]

\* open_redirect_fds that carries on after a failed open.
RECURSIVE OpenRedirectFdsNoFail(_, _)
OpenRedirectFdsNoFail(redirs, open) ==
  IF redirs = <<>>
    THEN [ok |-> TRUE, status |-> 0, stdin_fd |-> NoFd, stdout_fd |-> NoFd,
          stderr_fd |-> NoFd, open |-> open]
    ELSE LET acc == OpenRedirectFdsNoFail(SubSeq(redirs, 1, Len(redirs) - 1), open)
             nxt == OpenOne(acc, redirs[Len(redirs)])
         IN [nxt EXCEPT !.ok = TRUE]

\* open_redirect_fds(redirects), starting from the open descriptors `open`.
RECURSIVE OpenRedirectFds(_, _)
OpenRedirectFds(redirs, open) ==
  IF redirs = <<>>
    THEN [ok |-> TRUE, status |-> 0, stdin_fd |-> NoFd, stdout_fd |-> NoFd,
          stderr_fd |-> NoFd, open |-> open]
    ELSE LET acc == OpenRedirectFds(SubSeq(redirs, 1, Len(redirs) - 1), open)
         IN IF acc.ok THEN OpenOne(acc, redirs[Len(redirs)]) ELSE acc

\* ------------------------------------------------------------------------
\* spawn
\* ------------------------------------------------------------------------

\* What posix_spawnp returns: 0, or an errno.
SpawnResults ==
  {0, ENOENT, EACCES, ENOMEM}

\* An exit_status that takes every errno for "command not found".
ExitStatusAlways127(errno) ==
  127

\* SpawnError::exit_status
exit_status(errno) ==
  IF errno = ENOENT THEN 127
  ELSE IF errno = EACCES THEN 126
  ELSE 1

\* ------------------------------------------------------------------------
\* Job table
\* ------------------------------------------------------------------------

\* A Job::status that reports the first process's exit code.
JobStatusFirstCode(job) ==
  IF \E q \in 1..Len(job.processes) : job.processes[q].stopped
    THEN [kind |-> "Stopped", code |-> 0]
  ELSE IF \A q \in 1..Len(job.processes) : job.processes[q].completed
    THEN LET first == job.processes[1]
         IN [kind |-> "Done",
             code |-> IF WIFEXITED(first.status) THEN WEXITSTATUS(first.status)
                      ELSE IF WIFSIGNALED(first.status) THEN 128 + WTERMSIG(first.status)
                      ELSE 1]
  ELSE [kind |-> "Running", code |-> 0]

\* Job::status
JobStatus(job) ==
  IF \E q \in 1..Len(job.processes) : job.processes[q].stopped
    THEN [kind |-> "Stopped", code |-> 0]
  ELSE IF \A q \in 1..Len(job.processes) : job.processes[q].completed
    THEN LET last == job.processes[Len(job.processes)]
         IN [kind |-> "Done",
             code |-> IF WIFEXITED(last.status) THEN WEXITSTATUS(last.status)
                      ELSE IF WIFSIGNALED(last.status) THEN 128 + WTERMSIG(last.status)
                      ELSE 1]
  ELSE [kind |-> "Running", code |-> 0]

\* insert's search loop, entered with `id`: the first id from there on that
\* no job has.
RECURSIVE FirstFreeId(_, _)
FirstFreeId(js, id) ==
  IF ~(\E j \in 1..Len(js) : js[j].id = id) THEN id ELSE FirstFreeId(js, id + 1)

\* An insert that numbers the jobs by the length of the table.
InsertIdByLength(js) ==
  Len(js) + 1

\* The id JobTable::insert assigns: its loop starts at 1.
InsertId(js) ==
  FirstFreeId(js, 1)

\* JobTable::insert
insert(js, pg, ps) ==
  Append(js, [id |-> InsertId(js), pgid |-> pg,
              processes |-> [q \in 1..Len(ps) |->
                               [pid |-> ps[q], completed |-> FALSE,
                                stopped |-> FALSE, status |-> 0]],
              notified |-> FALSE])

\* A mark_pid that takes only a normal exit for a completion.
MarkPidExitedOnly(js, pid, raw) ==
  [j \in 1..Len(js) |->
     [js[j] EXCEPT !.processes =
        [q \in 1..Len(js[j].processes) |->
           IF js[j].processes[q].pid = pid
             THEN [js[j].processes[q] EXCEPT
                     !.status = raw,
                     !.stopped = WIFSTOPPED(raw),
                     !.completed = WIFEXITED(raw)]
             ELSE js[j].processes[q]]]]

\* JobTable::mark_pid (pids are unique, so the first match is the only one)
mark_pid(js, pid, raw) ==
  [j \in 1..Len(js) |->
     [js[j] EXCEPT !.processes =
        [q \in 1..Len(js[j].processes) |->
           IF js[j].processes[q].pid = pid
             THEN [js[j].processes[q] EXCEPT
                     !.status = raw,
                     !.stopped = WIFSTOPPED(raw),
                     !.completed = ~WIFSTOPPED(raw)]
             ELSE js[j].processes[q]]]]

\* execute_job's loop after a stop: every process of job `id` is marked stopped.
MarkAllStopped(js, id) ==
  [j \in 1..Len(js) |->
     IF js[j].id = id
       THEN [js[j] EXCEPT !.processes =
               [q \in 1..Len(js[j].processes) |->
                  [js[j].processes[q] EXCEPT !.stopped = TRUE]]]
       ELSE js[j]]

\* Children waitpid can report: terminated and not yet reaped, or stopped
\* and not yet reported (WUNTRACED).
Reportable(ps) ==
  { p \in DOMAIN procs :
      /\ p \in ps
      /\ \/ procs[p].state = "zombie"
         \/ procs[p].state = "stopped" /\ ~procs[p].reported }

\* The child table after waitpid has reported p.
Reported(pr, p) ==
  [pr EXCEPT ![p] = IF pr[p].state = "zombie"
                      THEN [pr[p] EXCEPT !.state = "reaped"]
                      ELSE [pr[p] EXCEPT !.reported = TRUE]]

InGroup(pg) ==
  { p \in DOMAIN procs : procs[p].pgid = pg }

\* What wait_for_fg does with one pid waitpid returned, after mark_pid:
\* "return" with (status, stopped), "continue", or "break" out of the loop.
WaitForFgDecide(js, pg, raw) ==
  IF \E j \in 1..Len(js) : js[j].pgid = pg
    THEN LET job == js[CHOOSE j \in 1..Len(js) :
                         js[j].pgid = pg /\ \A m \in 1..(j - 1) : js[m].pgid # pg]
             st == JobStatus(job)
         IN IF st.kind = "Done" THEN [op |-> "return", status |-> st.code, stopped |-> FALSE]
            ELSE IF st.kind = "Stopped" THEN [op |-> "return", status |-> 148, stopped |-> TRUE]
            ELSE [op |-> "continue", status |-> 0, stopped |-> FALSE]
    ELSE IF WIFSTOPPED(raw) THEN [op |-> "return", status |-> 148, stopped |-> TRUE]
    ELSE IF WIFEXITED(raw) THEN [op |-> "return", status |-> WEXITSTATUS(raw), stopped |-> FALSE]
    ELSE IF WIFSIGNALED(raw)
      THEN [op |-> "return", status |-> 128 + WTERMSIG(raw), stopped |-> FALSE]
    ELSE [op |-> "break", status |-> 0, stopped |-> FALSE]

\* wait_for_fg's result once its loop was left by `break`.
WaitForFgAfterLoop(raw) ==
  IF WIFEXITED(raw) THEN WEXITSTATUS(raw)
  ELSE IF WIFSIGNALED(raw) THEN 128 + WTERMSIG(raw)
  ELSE 0

\* reap_jobs: mark_pid for every child waitpid(-1, WNOHANG | WUNTRACED) reports.
RECURSIVE ReapAll(_, _)
ReapAll(js, S) ==
  IF S = {} THEN js
  ELSE LET p == CHOOSE x \in S : \A y \in S : x <= y
       IN ReapAll(mark_pid(js, p, procs[p].raw), S \ {p})

\* ------------------------------------------------------------------------
\* executor::execute_job
\* ------------------------------------------------------------------------

\* Inline assignments of one command: none, or X=new.
AssignLists ==
  {<<>>, <<"new">>}

NoCall ==
  [fds0 |-> StdFds, env0 |-> "unset", njobs0 |-> 0, pid0 |-> 0, cause |-> "none",
   errno |-> 0,
   failAt |-> 0, spawnedFor |-> {}, assigned |-> FALSE, given |-> FALSE,
   stopped |-> FALSE]

InitJob ==
  /\ jpc = "idle"
  /\ n = 0
  /\ background = FALSE
  /\ ci = 1
  /\ pipes = <<>>
  /\ pids = <<>>
  /\ pgid = 0
  /\ spawn_error = FALSE
  /\ error_status = 1
  /\ wi = 1
  /\ last_raw_status = 0
  /\ ret = 0
  /\ openFds = StdFds
  /\ env = "unset"
  /\ procs = <<>>
  /\ nextPid = ShellPgid + 1
  /\ jobs = <<>>
  /\ next_id = 1
  /\ tty = ShellPgid
  /\ calls = 0
  /\ call = NoCall

\* execute_job is entered and the pipes are created; pipe() number failAt
\* (0: none) fails, the pipes made so far are closed and 1 is returned.
JobStart ==
  /\ jpc = "idle"
  /\ calls < MaxCalls
  /\ calls' = calls + 1
  /\ \E nn \in 1..MaxCmds, bg \in BOOLEAN, failAt \in 0..(MaxCmds - 1) :
       /\ (nextPid - (ShellPgid + 1)) + nn <= MaxProcs
       /\ failAt <= nn - 1
       /\ n' = nn
       /\ background' = bg
       /\ call' = [NoCall EXCEPT !.fds0 = openFds, !.env0 = env,
                                 !.njobs0 = Len(jobs), !.pid0 = nextPid,
                                 !.cause = IF failAt > 0 THEN "pipe" ELSE "none"]
       /\ IF failAt > 0
            THEN /\ pipes' = <<>>
                 /\ openFds' = ClosePipes(MakePipes(failAt - 1, openFds).pipes,
                                          MakePipes(failAt - 1, openFds).open)
                 /\ ret' = 1
                 /\ jpc' = "returned"
            ELSE /\ pipes' = MakePipes(nn - 1, openFds).pipes
                 /\ openFds' = MakePipes(nn - 1, openFds).open
                 /\ ret' = ret
                 /\ jpc' = "loop"
  /\ ci' = 1
  /\ pids' = <<>>
  /\ pgid' = 0
  /\ spawn_error' = FALSE
  /\ error_status' = 1
  /\ wi' = 1
  /\ last_raw_status' = 0
  /\ UNCHANGED <<env, procs, nextPid, jobs, next_id, tty>>

\* One turn of the for loop over the commands: inline assignments, pipe
\* ends, open_redirect_fds, spawn, the parent's closes, the restore.
JobLoopStep ==
  /\ jpc = "loop"
  /\ \E assigns \in AssignLists, redirs \in RedirectLists, errno \in SpawnResults :
       LET redirFails == \E j \in 1..Len(redirs) : ~redirs[j].ok
           env1 == IF assigns = <<>> THEN env ELSE assigns[Len(assigns)]
           rf == OpenRedirectFds(redirs, openFds)
           pid == nextPid
           pg == IF pgid = 0 THEN pid ELSE pgid
           afterPipes ==
             CloseFd(CloseFd(rf.open,
                             IF ci > 1 THEN pipes[ci - 1].r ELSE NoFd),
                     IF ci < n THEN pipes[ci].w ELSE NoFd)
           afterRedirs == afterPipes \ {rf.stdin_fd, rf.stdout_fd, rf.stderr_fd}
       IN /\ redirFails => errno = 0
          /\ IF ~rf.ok
               THEN \* Err(status): error_status = status; spawn_error; break
                    /\ error_status' = rf.status
                    /\ spawn_error' = TRUE
                    /\ env' = env1
                    /\ openFds' = rf.open
                    /\ jpc' = "after"
                    /\ UNCHANGED <<pipes, pids, pgid, procs, nextPid, ci>>
             ELSE IF errno # 0
               THEN \* spawn failed: error_status = e.exit_status(); break
                    /\ error_status' = exit_status(errno)
                    /\ spawn_error' = TRUE
                    /\ env' = env1
                    /\ openFds' = rf.open
                    /\ jpc' = "after"
                    /\ UNCHANGED <<pipes, pids, pgid, procs, nextPid, ci>>
             ELSE /\ procs' = procs @@ (pid :> [pgid |-> pg, state |-> "running",
                                                  raw |-> 0, reported |-> FALSE])
                  /\ nextPid' = nextPid + 1
                  /\ pgid' = pg
                  /\ pids' = Append(pids, pid)
                  /\ pipes' = [j \in 1..Len(pipes) |->
                                 [r |-> IF j = ci - 1 THEN NoFd ELSE pipes[j].r,
                                  w |-> IF j = ci THEN NoFd ELSE pipes[j].w]]
                  /\ openFds' = afterRedirs
                  /\ env' = env
                  /\ ci' = ci + 1
                  /\ jpc' = IF ci = n THEN "after" ELSE "loop"
                  /\ UNCHANGED <<spawn_error, error_status>>
          /\ call' = [call EXCEPT
                        !.cause = IF redirFails THEN "redirect"
                                  ELSE IF errno # 0 THEN "spawn" ELSE @,
                        !.errno = IF ~redirFails THEN errno ELSE @,
                        !.failAt = IF redirFails \/ errno # 0 THEN ci ELSE @,
                        !.assigned = @ \/ assigns # <<>>,
                        !.spawnedFor = IF rf.ok /\ errno = 0 THEN @ \cup {ci} ELSE @]
  /\ UNCHANGED <<n, background, wi, last_raw_status, ret, jobs, next_id, tty, calls>>

\* After the loop: the remaining pipe ends are closed; then the error path,
\* the background path (insert and return 0) or give_terminal_to.
JobAfterLoop ==
  /\ jpc = "after"
  /\ openFds' = ClosePipes(pipes, openFds)
  /\ IF spawn_error
       THEN /\ jpc' = "errwait"
            /\ UNCHANGED <<jobs, next_id, tty, ret, call>>
     ELSE IF background
       THEN /\ jobs' = insert(jobs, pgid, pids)
            /\ next_id' = IF InsertId(jobs) >= next_id THEN InsertId(jobs) + 1 ELSE next_id
            /\ ret' = 0
            /\ jpc' = "returned"
            /\ UNCHANGED <<tty, call>>
     ELSE /\ tty' = pgid
          /\ call' = [call EXCEPT !.given = TRUE]
          /\ jpc' = "fgwait"
          /\ UNCHANGED <<jobs, next_id, ret>>
  /\ UNCHANGED <<n, background, ci, pipes, pids, pgid, spawn_error, error_status,
                 wi, last_raw_status, env, procs, nextPid, calls>>

\* The error path: waitpid(pid, NULL, 0) on each spawned pid in turn, which
\* returns once that child has terminated; then return error_status.
JobErrWait ==
  /\ jpc = "errwait"
  /\ IF wi > Len(pids)
       THEN /\ ret' = error_status
            /\ jpc' = "returned"
            /\ UNCHANGED <<wi, procs>>
       ELSE /\ procs[pids[wi]].state = "zombie"
            /\ procs' = [procs EXCEPT ![pids[wi]].state = "reaped"]
            /\ wi' = wi + 1
            /\ UNCHANGED <<ret, jpc>>
  /\ UNCHANGED <<n, background, ci, pipes, pids, pgid, spawn_error, error_status,
                 last_raw_status, openFds, env, nextPid, jobs, next_id, tty, calls,
                 call>>

\* execute_job's tail once wait_for_fg has returned (status, stopped):
\* take_terminal_back, and for a stop the insert with every process stopped.
FinishForeground(status, stopped, js) ==
  /\ tty' = ShellPgid
  /\ ret' = status
  /\ jpc' = "returned"
  /\ call' = [call EXCEPT !.stopped = stopped]
  /\ IF stopped
       THEN /\ jobs' = MarkAllStopped(insert(js, pgid, pids), InsertId(js))
            /\ next_id' = IF InsertId(js) >= next_id THEN InsertId(js) + 1 ELSE next_id
       ELSE /\ jobs' = js
            /\ UNCHANGED next_id

\* wait_for_fg: one waitpid(-pgid, WUNTRACED).  It reports one child of the
\* group that has terminated or stopped, fails when the group has no child
\* left, and blocks otherwise.
JobFgWait ==
  /\ jpc = "fgwait"
  /\ IF Reportable(InGroup(pgid)) = {}
       THEN /\ \A p \in InGroup(pgid) : procs[p].state = "reaped"
            /\ FinishForeground(WaitForFgAfterLoop(last_raw_status), FALSE, jobs)
            /\ UNCHANGED <<procs, last_raw_status>>
       ELSE \E p \in Reportable(InGroup(pgid)) :
              LET raw == procs[p].raw
                  js == mark_pid(jobs, p, raw)
                  d == WaitForFgDecide(js, pgid, raw)
              IN /\ procs' = Reported(procs, p)
                 /\ last_raw_status' = raw
                 /\ IF d.op = "return" THEN FinishForeground(d.status, d.stopped, js)
                    ELSE IF d.op = "break"
                      THEN FinishForeground(WaitForFgAfterLoop(raw), FALSE, js)
                    ELSE /\ jobs' = js
                         /\ UNCHANGED <<tty, ret, jpc, call, next_id>>
  /\ UNCHANGED <<n, background, ci, pipes, pids, pgid, spawn_error, error_status,
                 wi, openFds, env, nextPid, calls>>

\* execute_job's caller takes the status and the shell is back at its loop;
\* execute_job's locals are gone.
JobReturn ==
  /\ jpc = "returned"
  /\ jpc' = "idle"
  /\ n' = 0
  /\ background' = FALSE
  /\ ci' = 1
  /\ pipes' = <<>>
  /\ pids' = <<>>
  /\ pgid' = 0
  /\ spawn_error' = FALSE
  /\ error_status' = 1
  /\ wi' = 1
  /\ last_raw_status' = 0
  /\ ret' = 0
  /\ call' = NoCall
  /\ UNCHANGED <<openFds, env, procs, nextPid, jobs, next_id, tty, calls>>

\* reap_jobs, called before each prompt and on entry to execute.
ReapJobs ==
  /\ jpc = "idle"
  /\ Reportable(DOMAIN procs) # {}
  /\ jobs' = ReapAll(jobs, Reportable(DOMAIN procs))
  /\ procs' = [p \in DOMAIN procs |->
                 IF p \in Reportable(DOMAIN procs) THEN Reported(procs, p)[p]
                 ELSE procs[p]]
  /\ UNCHANGED <<jpc, n, background, ci, pipes, pids, pgid, spawn_error,
                 error_status, wi, last_raw_status, ret, openFds, env, nextPid,
                 next_id, tty, calls, call>>

childFrame ==
  <<jpc, n, background, ci, pipes, pids, pgid, spawn_error, error_status, wi,
    last_raw_status, ret, openFds, env, nextPid, jobs, next_id, tty, calls, call>>

\* A running child exits.
ChildExit ==
  /\ \E p \in DOMAIN procs, code \in ExitCodes :
       /\ procs[p].state = "running"
       /\ procs' = [procs EXCEPT ![p].state = "zombie", ![p].raw = ExitedRaw(code)]
  /\ UNCHANGED childFrame

\* A running or stopped child is killed by a signal.
ChildKilled ==
  /\ \E p \in DOMAIN procs :
       /\ procs[p].state \in {"running", "stopped"}
       /\ procs' = [procs EXCEPT ![p].state = "zombie", ![p].raw = SignaledRaw(SIGINT),
                                 ![p].reported = FALSE]
  /\ UNCHANGED childFrame

\* A running child is stopped (SIGTSTP from the terminal, SIGTTIN, ...).
ChildStop ==
  /\ \E p \in DOMAIN procs :
       /\ procs[p].state = "running"
       /\ procs' = [procs EXCEPT ![p].state = "stopped", ![p].raw = StoppedRaw(SIGTSTP),
                                 ![p].reported = FALSE]
  /\ UNCHANGED childFrame

\* builtin_set with `-o pipefail` (enable) or `+o pipefail`, between pipelines.
BuiltinSetPipefail ==
  /\ jpc = "idle"
  /\ \E enable \in BOOLEAN : set_pipefail' = enable
  /\ UNCHANGED <<spc, cmd, wjob, wpgid, notes, gone>>

NextJob ==
  \/ BuiltinSetPipefail /\ UNCHANGED <<listVars, jobVars, edVars, fnVars>>
  \/ JobStart /\ UNCHANGED notJobVars
  \/ JobLoopStep /\ UNCHANGED notJobVars
  \/ JobAfterLoop /\ UNCHANGED notJobVars
  \/ JobErrWait /\ UNCHANGED notJobVars
  \/ JobFgWait /\ UNCHANGED notJobVars
  \/ JobReturn /\ UNCHANGED notJobVars
  \/ ReapJobs /\ UNCHANGED notJobVars
  \/ ChildExit /\ UNCHANGED notJobVars
  \/ ChildKilled /\ UNCHANGED notJobVars
  \/ ChildStop /\ UNCHANGED notJobVars

\* ------------------------------------------------------------------------
\* Job control from the prompt: main()'s loop, fg, bg, wait
\* ------------------------------------------------------------------------

\* JobTable::get / get_mut: position of the first job with this id (0: None).
JobIndex(js, id) ==
  IF \E j \in 1..Len(js) : js[j].id = id
    THEN CHOOSE j \in 1..Len(js) : js[j].id = id /\ \A m \in 1..(j - 1) : js[m].id # id
    ELSE 0

\* JobTable::current_job_id: the id of the last job that is not Done (0: None).
current_job_id(js) ==
  LET S == { j \in 1..Len(js) : JobStatus(js[j]).kind # "Done" }
  IN IF S = {} THEN 0 ELSE js[CHOOSE j \in S : \A m \in S : m <= j].id

\* parse_job_arg: `%N` is N; without an argument (0) the current job.
\* 0 is Err(1).
parse_job_arg(js, arg) ==
  IF arg > 0 THEN arg ELSE current_job_id(js)

\* JobTable::remove_done
remove_done(js) ==
  SelectSeq(js, LAMBDA j : ~(j.notified /\ JobStatus(j).kind = "Done"))

\* The jobs notify_and_clean's first loop prints a Done line for.
DoneUnnotified(js) ==
  SelectSeq(js, LAMBDA j : JobStatus(j).kind = "Done" /\ ~j.notified)

\* A notify_and_clean that empties the table.
NotifyAndCleanEvery(js) ==
  <<>>

\* notify_and_clean: the table after the second loop and remove_done.
notify_and_clean(js) ==
  remove_done([j \in 1..Len(js) |->
                 IF JobStatus(js[j]).kind = "Done"
                   THEN [js[j] EXCEPT !.notified = TRUE] ELSE js[j]])

\* The loop of builtin_fg / execute_job that sets or clears the stopped flag
\* of every process of job `id`.
SetStopped(js, id, b) ==
  [j \in 1..Len(js) |->
     IF j = JobIndex(js, id)
       THEN [js[j] EXCEPT !.processes =
               [q \in 1..Len(js[j].processes) |->
                  [js[j].processes[q] EXCEPT !.stopped = b]]]
       ELSE js[j]]

\* get_mut(job_id).notified = true
SetNotified(js, id) ==
  [j \in 1..Len(js) |->
     IF j = JobIndex(js, id) THEN [js[j] EXCEPT !.notified = TRUE] ELSE js[j]]

\* kill(-pgid, SIGCONT): the stopped processes of the group run again.
Continue(pr, pg) ==
  [p \in DOMAIN pr |->
     IF pr[p].pgid = pg /\ pr[p].state = "stopped"
       THEN [pr[p] EXCEPT !.state = "running", !.raw = 0, !.reported = FALSE]
       ELSE pr[p]]

\* The child table after a loop of waitpid(-1, WNOHANG | WUNTRACED).
ReportedAll(pr) ==
  [p \in DOMAIN pr |->
     IF p \in Reportable(DOMAIN pr) THEN Reported(pr, p)[p] ELSE pr[p]]

\* History entries: the Done lines printed for `printed` at position `at`.
Notes(printed, at) ==
  [k \in 1..Len(printed) |-> [pgid |-> printed[k].pgid, at |-> at]]

\* History entries: the jobs of `before` that are not in `after`, each with
\* its status and whether one of its processes is still alive.
Gone(before, after, pr) ==
  { [pgid |-> before[j].pgid,
     kind |-> JobStatus(before[j]).kind,
     live |-> \E q \in 1..Len(before[j].processes) :
                pr[before[j].processes[q].pid].state \in {"running", "stopped"}] :
      j \in { i \in 1..Len(before) :
                \A m \in 1..Len(after) : after[m].pgid # before[i].pgid } }

\* The lines typed at the prompt: a pipeline, or a job-control builtin with
\* its `%N` argument (0: no argument).
ReplCommands ==
  { [kind |-> "pipeline", arg |-> 0] }
    \cup { [kind |-> k, arg |-> a] : k \in {"fg", "bg", "wait"}, a \in 0..2 }

NoCmd ==
  [kind |-> "none", arg |-> 0]

InitRepl ==
  /\ set_pipefail = FALSE
  /\ spc = "top"
  /\ cmd = NoCmd
  /\ wjob = 0
  /\ wpgid = 0
  /\ notes = <<>>
  /\ gone = {}

\* main(): reap_jobs at the top of the loop.
PromptReap ==
  /\ spc = "top"
  /\ jobs' = ReapAll(jobs, Reportable(DOMAIN procs))
  /\ procs' = ReportedAll(procs)
  /\ spc' = "notify"
  /\ UNCHANGED <<set_pipefail, cmd, wjob, wpgid, notes, gone>>
  /\ UNCHANGED <<jpc, n, background, ci, pipes, pids, pgid, spawn_error,
                 error_status, wi, last_raw_status, ret, openFds, env, nextPid,
                 next_id, tty, calls, call>>

\* main(): notify_and_clean, then the prompt is built and read_line entered.
PromptNotify ==
  /\ spc = "notify"
  /\ notes' = notes \o Notes(DoneUnnotified(jobs), "prompt")
  /\ jobs' = notify_and_clean(jobs)
  /\ gone' = gone \cup Gone(jobs, notify_and_clean(jobs), procs)
  /\ spc' = "read"
  /\ UNCHANGED <<set_pipefail, cmd, wjob, wpgid>>
  /\ UNCHANGED <<jpc, n, background, ci, pipes, pids, pgid, spawn_error,
                 error_status, wi, last_raw_status, ret, openFds, env, procs,
                 nextPid, next_id, tty, calls, call>>

\* read_line returns a line, which is parsed and handed to execute; or it
\* returns None (Ctrl+D) and the loop is left.
ReadCommand ==
  /\ spc = "read"
  /\ \/ \E c \in ReplCommands :
          /\ c.kind = "pipeline" => nextPid - (ShellPgid + 1) < MaxReplProcs
          /\ cmd' = c
          /\ spc' = "reap"
     \/ /\ spc' = "exited"
        /\ cmd' = NoCmd
  /\ calls' = 0
  /\ UNCHANGED <<set_pipefail, wjob, wpgid, notes, gone>>
  /\ UNCHANGED <<jpc, n, background, ci, pipes, pids, pgid, spawn_error,
                 error_status, wi, last_raw_status, ret, openFds, env, procs,
                 nextPid, jobs, next_id, tty, call>>

\* execute(): reap_jobs before the list is run.
ExecReap ==
  /\ spc = "reap"
  /\ jobs' = ReapAll(jobs, Reportable(DOMAIN procs))
  /\ procs' = ReportedAll(procs)
  /\ spc' = "exec"
  /\ UNCHANGED <<set_pipefail, cmd, wjob, wpgid, notes, gone>>
  /\ UNCHANGED <<jpc, n, background, ci, pipes, pids, pgid, spawn_error,
                 error_status, wi, last_raw_status, ret, openFds, env, nextPid,
                 next_id, tty, calls, call>>

\* execute_job has returned and with it execute: back to the top of the loop.
LineDone ==
  /\ spc = "exec" /\ cmd.kind = "pipeline"
  /\ jpc = "idle" /\ calls > 0
  /\ spc' = "top"
  /\ cmd' = NoCmd
  /\ UNCHANGED <<set_pipefail, wjob, wpgid, notes, gone>>
  /\ UNCHANGED jobVars

\* builtin_bg
BuiltinBg ==
  /\ spc = "exec" /\ cmd.kind = "bg"
  /\ LET id == parse_job_arg(jobs, cmd.arg)
         j == JobIndex(jobs, id)
     IN IF id = 0 \/ j = 0 \/ JobStatus(jobs[j]).kind # "Stopped"
          THEN UNCHANGED <<procs, jobs>>
          ELSE /\ procs' = Continue(procs, jobs[j].pgid)
               /\ jobs' = SetStopped(jobs, id, FALSE)
  /\ spc' = "top"
  /\ cmd' = NoCmd
  /\ UNCHANGED <<set_pipefail, wjob, wpgid, notes, gone>>
  /\ UNCHANGED <<jpc, n, background, ci, pipes, pids, pgid, spawn_error,
                 error_status, wi, last_raw_status, ret, openFds, env, nextPid,
                 next_id, tty, calls, call>>

\* builtin_fg up to its call of wait_for_fg: give_terminal_to, SIGCONT, the
\* stopped flags cleared.  Without a job it returns 1.
BuiltinFgStart ==
  /\ spc = "exec" /\ cmd.kind = "fg"
  /\ LET id == parse_job_arg(jobs, cmd.arg)
         j == JobIndex(jobs, id)
     IN IF id = 0 \/ j = 0
          THEN /\ spc' = "top" /\ cmd' = NoCmd
               /\ UNCHANGED <<procs, jobs, tty, wjob, wpgid>>
          ELSE /\ tty' = jobs[j].pgid
               /\ procs' = Continue(procs, jobs[j].pgid)
               /\ jobs' = SetStopped(jobs, id, FALSE)
               /\ wjob' = id
               /\ wpgid' = jobs[j].pgid
               /\ spc' = "fg"
               /\ UNCHANGED cmd
  /\ last_raw_status' = 0
  /\ UNCHANGED <<set_pipefail, notes, gone>>
  /\ UNCHANGED <<jpc, n, background, ci, pipes, pids, pgid, spawn_error,
                 error_status, wi, ret, openFds, env, nextPid, next_id, calls, call>>

\* A builtin_fg that leaves the terminal with the job when the job stops.
FinishFgKeepsTerminal(stopped, js) ==
  LET after == IF stopped THEN SetStopped(js, wjob, TRUE)
               ELSE remove_done(SetNotified(js, wjob))
  IN /\ tty' = (IF stopped THEN tty ELSE ShellPgid)
     /\ jobs' = after
     /\ gone' = gone \cup Gone(js, after, procs')
     /\ spc' = "top"
     /\ cmd' = NoCmd
     /\ wjob' = 0
     /\ wpgid' = 0
     /\ last_raw_status' = 0

\* builtin_fg once wait_for_fg has returned (status, stopped) on the table
\* js: take_terminal_back; a stop marks every process stopped, otherwise the
\* job is marked notified and remove_done runs.
FinishFg(stopped, js) ==
  LET after == IF stopped THEN SetStopped(js, wjob, TRUE)
               ELSE remove_done(SetNotified(js, wjob))
  IN /\ tty' = ShellPgid
     /\ jobs' = after
     /\ gone' = gone \cup Gone(js, after, procs')
     /\ spc' = "top"
     /\ cmd' = NoCmd
     /\ wjob' = 0
     /\ wpgid' = 0
     /\ last_raw_status' = 0

\* builtin_fg: one waitpid(-pgid, WUNTRACED) of its wait_for_fg.
BuiltinFgWait ==
  /\ spc = "fg"
  /\ IF Reportable(InGroup(wpgid)) = {}
       THEN /\ \A p \in InGroup(wpgid) : procs[p].state = "reaped"
            /\ procs' = procs
            /\ FinishFg(FALSE, jobs)
       ELSE \E p \in Reportable(InGroup(wpgid)) :
              LET raw == procs[p].raw
                  js == mark_pid(jobs, p, raw)
                  d == WaitForFgDecide(js, wpgid, raw)
              IN /\ procs' = Reported(procs, p)
                 /\ IF d.op = "continue"
                      THEN /\ jobs' = js
                           /\ last_raw_status' = raw
                           /\ UNCHANGED <<tty, gone, spc, cmd, wjob, wpgid>>
                      ELSE FinishFg(d.stopped, js)
  /\ UNCHANGED <<set_pipefail, notes>>
  /\ UNCHANGED <<jpc, n, background, ci, pipes, pids, pgid, spawn_error,
                 error_status, wi, ret, openFds, env, nextPid, next_id, calls, call>>

\* builtin_wait up to its waitpid loop: with `%N` the job is looked up (127
\* when there is none); without an argument every child is waited for.
BuiltinWaitStart ==
  /\ spc = "exec" /\ cmd.kind = "wait"
  /\ IF cmd.arg > 0
       THEN LET id == parse_job_arg(jobs, cmd.arg)
                j == JobIndex(jobs, id)
            IN IF j = 0
                 THEN /\ spc' = "top" /\ cmd' = NoCmd
                      /\ UNCHANGED <<wjob, wpgid>>
                 ELSE /\ wjob' = id
                      /\ wpgid' = jobs[j].pgid
                      /\ spc' = "wait_job"
                      /\ UNCHANGED cmd
       ELSE /\ spc' = "wait_all"
            /\ UNCHANGED <<cmd, wjob, wpgid>>
  /\ UNCHANGED <<set_pipefail, notes, gone>>
  /\ UNCHANGED jobVars

\* builtin_wait %N: one turn of its loop of waitpid(-pgid, WUNTRACED).
BuiltinWaitJob ==
  /\ spc = "wait_job"
  /\ IF Reportable(InGroup(wpgid)) = {}
       THEN /\ \A p \in InGroup(wpgid) : procs[p].state = "reaped"
            /\ spc' = "top" /\ cmd' = NoCmd /\ wjob' = 0 /\ wpgid' = 0
            /\ UNCHANGED <<procs, jobs, gone>>
       ELSE \E p \in Reportable(InGroup(wpgid)) :
              LET js == mark_pid(jobs, p, procs[p].raw)
                  j == JobIndex(js, wjob)
                  kind == IF j = 0 THEN "None" ELSE JobStatus(js[j]).kind
                  after == IF kind = "Done" THEN remove_done(SetNotified(js, wjob))
                           ELSE js
              IN /\ procs' = Reported(procs, p)
                 /\ jobs' = after
                 /\ gone' = gone \cup Gone(js, after, procs')
                 /\ IF kind = "Running"
                      THEN UNCHANGED <<spc, cmd, wjob, wpgid>>
                      ELSE spc' = "top" /\ cmd' = NoCmd /\ wjob' = 0 /\ wpgid' = 0
  /\ UNCHANGED <<set_pipefail, notes>>
  /\ UNCHANGED <<jpc, n, background, ci, pipes, pids, pgid, spawn_error,
                 error_status, wi, last_raw_status, ret, openFds, env, nextPid,
                 next_id, tty, calls, call>>

\* builtin_wait without argument: one turn of its loop of
\* waitpid(-1, WUNTRACED); when no child is left, notify_and_clean.
BuiltinWaitAll ==
  /\ spc = "wait_all"
  /\ IF Reportable(DOMAIN procs) = {}
       THEN /\ \A p \in DOMAIN procs : procs[p].state = "reaped"
            /\ notes' = notes \o Notes(DoneUnnotified(jobs), "wait")
            /\ jobs' = notify_and_clean(jobs)
            /\ gone' = gone \cup Gone(jobs, notify_and_clean(jobs), procs)
            /\ spc' = "top" /\ cmd' = NoCmd
            /\ UNCHANGED procs
       ELSE \E p \in Reportable(DOMAIN procs) :
              /\ procs' = Reported(procs, p)
              /\ jobs' = mark_pid(jobs, p, procs[p].raw)
              /\ UNCHANGED <<notes, gone, spc, cmd>>
  /\ UNCHANGED <<set_pipefail, wjob, wpgid>>
  /\ UNCHANGED <<jpc, n, background, ci, pipes, pids, pgid, spawn_error,
                 error_status, wi, last_raw_status, ret, openFds, env, nextPid,
                 next_id, tty, calls, call>>

\* The pipelines typed at the prompt are plain ones: no inline assignment,
\* and every pipe, open and spawn succeeds.
PlainCall ==
  call'.cause = "none" /\ ~call'.assigned

\* The pipelines typed at the prompt spawn MaxReplProcs processes in all.
PlainStart ==
  PlainCall /\ (nextPid - (ShellPgid + 1)) + n' <= MaxReplProcs

\* Their commands exit with 0 unless a signal kills them.
PlainExit ==
  \A p \in DOMAIN procs : procs'[p].raw \in {procs[p].raw, ExitedRaw(0)}

NextRepl ==
  \/ PromptReap /\ UNCHANGED notReplVars
  \/ PromptNotify /\ UNCHANGED notReplVars
  \/ ReadCommand /\ UNCHANGED notReplVars
  \/ ExecReap /\ UNCHANGED notReplVars
  \/ spc = "exec" /\ cmd.kind = "pipeline" /\ JobStart /\ PlainStart /\ UNCHANGED notJobVars
  \/ JobLoopStep /\ PlainCall /\ UNCHANGED notJobVars
  \/ JobAfterLoop /\ UNCHANGED notJobVars
  \/ JobFgWait /\ UNCHANGED notJobVars
  \/ JobReturn /\ UNCHANGED notJobVars
  \/ LineDone /\ UNCHANGED notReplVars
  \/ BuiltinBg /\ UNCHANGED notReplVars
  \/ BuiltinFgStart /\ UNCHANGED notReplVars
  \/ BuiltinFgWait /\ UNCHANGED notReplVars
  \/ BuiltinWaitStart /\ UNCHANGED notReplVars
  \/ BuiltinWaitJob /\ UNCHANGED notReplVars
  \/ BuiltinWaitAll /\ UNCHANGED notReplVars
  \/ ChildExit /\ UNCHANGED notJobVars
  \/ ChildKilled /\ UNCHANGED notJobVars
  \/ ChildStop /\ UNCHANGED notJobVars

\* ------------------------------------------------------------------------
\* The job table by itself: insert, mark_pid, notify_and_clean
\* ------------------------------------------------------------------------

\* The wait statuses mark_pid is called with.
RawStatuses ==
  { ExitedRaw(code) : code \in ExitCodes } \cup {SignaledRaw(SIGINT), StoppedRaw(SIGTSTP)}

\* pids first, first + 1, ..., first + k - 1
PidRun(first, k) ==
  [q \in 1..k |-> first + q - 1]

\* JobTable::insert for a pipeline of k new processes.
TblInsert ==
  /\ \E k \in 1..2 :
       /\ (nextPid - (ShellPgid + 1)) + k <= MaxTblProcs
       /\ jobs' = insert(jobs, nextPid, PidRun(nextPid, k))
       /\ procs' = procs @@ [p \in nextPid..(nextPid + k - 1) |->
                               [pgid |-> nextPid, state |-> "running", raw |-> 0,
                                reported |-> FALSE]]
       /\ nextPid' = nextPid + k
  /\ next_id' = IF InsertId(jobs) >= next_id THEN InsertId(jobs) + 1 ELSE next_id
  /\ UNCHANGED <<jpc, n, background, ci, pipes, pids, pgid, spawn_error,
                 error_status, wi, last_raw_status, ret, openFds, env, tty, calls,
                 call>>

\* JobTable::mark_pid with what waitpid reported for a process that had not
\* terminated.
TblMarkPid ==
  /\ \E p \in DOMAIN procs, raw \in RawStatuses :
       /\ procs[p].state # "reaped"
       /\ jobs' = mark_pid(jobs, p, raw)
       /\ procs' = [procs EXCEPT ![p].raw = raw,
                                 ![p].state = IF WIFSTOPPED(raw) THEN "stopped" ELSE "reaped",
                                 ![p].reported = TRUE]
  /\ UNCHANGED <<jpc, n, background, ci, pipes, pids, pgid, spawn_error,
                 error_status, wi, last_raw_status, ret, openFds, env, nextPid,
                 next_id, tty, calls, call>>

\* notify_and_clean on a table with a Done job.
TblNotifyAndClean ==
  /\ notify_and_clean(jobs) # jobs
  /\ jobs' = notify_and_clean(jobs)
  /\ UNCHANGED <<jpc, n, background, ci, pipes, pids, pgid, spawn_error,
                 error_status, wi, last_raw_status, ret, openFds, env, procs,
                 nextPid, next_id, tty, calls, call>>

NextTable ==
  \/ TblInsert /\ UNCHANGED notJobVars
  \/ TblMarkPid /\ UNCHANGED notJobVars
  \/ TblNotifyAndClean /\ UNCHANGED notJobVars

\* ------------------------------------------------------------------------
\* Line editor: the buffer as UTF-8 bytes, the cursor as a byte offset
\* ------------------------------------------------------------------------

\* The characters typed: a two-byte one and the space.
EditorChars ==
  {"e-acute", "space"}

\* char::encode_utf8
Utf8(ch) ==
  IF ch = "e-acute" THEN <<"C3", "A9">> ELSE <<"20">>

\* char::len_utf8
len_utf8(ch) ==
  Len(Utf8(ch))

\* str::is_char_boundary: offset 0, the length, or an offset whose byte is
\* not a continuation byte.
is_char_boundary(b, i) ==
  \/ i = 0
  \/ i = Len(b)
  \/ i > 0 /\ i < Len(b) /\ b[i + 1] # "A9"

\* Byte length of the character that starts at offset i.
CharLenAt(b, i) ==
  IF b[i + 1] = "C3" THEN 2 ELSE 1

\* buf[..cur].char_indices().next_back().map(|(i, _)| i).unwrap_or(0)
LastCharStart(b, cur) ==
  LET S == { i \in 0..(cur - 1) : is_char_boundary(b, i) }
  IN IF S = {} THEN 0 ELSE CHOOSE i \in S : \A m \in S : m <= i

\* String::remove(at) on a boundary at < len: the character there goes.
StringRemove(b, at) ==
  SubSeq(b, 1, at) \o SubSeq(b, at + CharLenAt(b, at) + 1, Len(b))

\* Result of an editor operation; panic: a String method or a slice was
\* given an offset that is no character boundary.
Ed(b, c) ==
  [buf |-> b, cursor |-> c, panic |-> FALSE]

EdPanic(b, c) ==
  [buf |-> b, cursor |-> c, panic |-> TRUE]

insert_char(b, c, ch) ==
  IF ~is_char_boundary(b, c) THEN EdPanic(b, c)
  ELSE Ed(SubSeq(b, 1, c) \o Utf8(ch) \o SubSeq(b, c + 1, Len(b)), c + len_utf8(ch))

delete_char_before(b, c) ==
  IF c > 0
    THEN IF ~is_char_boundary(b, c) THEN EdPanic(b, c)
         ELSE Ed(StringRemove(b, LastCharStart(b, c)), LastCharStart(b, c))
    ELSE Ed(b, c)

delete_char_at(b, c) ==
  IF c < Len(b)
    THEN IF ~is_char_boundary(b, c) THEN EdPanic(b, c) ELSE Ed(StringRemove(b, c), c)
    ELSE Ed(b, c)

\* A move_left that steps back one byte.
MoveLeftOneByte(b, c) ==
  IF c > 0 THEN Ed(b, c - 1) ELSE Ed(b, c)

move_left(b, c) ==
  IF c > 0
    THEN IF ~is_char_boundary(b, c) THEN EdPanic(b, c) ELSE Ed(b, LastCharStart(b, c))
    ELSE Ed(b, c)

move_right(b, c) ==
  IF c < Len(b)
    THEN IF ~is_char_boundary(b, c) THEN EdPanic(b, c) ELSE Ed(b, c + CharLenAt(b, c))
    ELSE Ed(b, c)

move_home(b, c) ==
  Ed(b, 0)

move_end(b, c) ==
  Ed(b, Len(b))

\* String::truncate(cursor)
kill_to_end(b, c) ==
  IF c > Len(b) THEN Ed(b, c)
  ELSE IF ~is_char_boundary(b, c) THEN EdPanic(b, c)
  ELSE Ed(SubSeq(b, 1, c), c)

\* String::drain(..cursor)
kill_to_start(b, c) ==
  IF c > Len(b) \/ ~is_char_boundary(b, c) THEN EdPanic(b, c)
  ELSE Ed(SubSeq(b, c + 1, Len(b)), 0)

\* kill_word_back's two loops over the characters before the cursor: from
\* the boundary `pos`, step back over the characters that are spaces
\* (spaces = TRUE) or are not (spaces = FALSE).
RECURSIVE SkipBack(_, _, _)
SkipBack(b, pos, spaces) ==
  IF pos > 0 /\ ((b[LastCharStart(b, pos) + 1] = "20") = spaces)
    THEN SkipBack(b, LastCharStart(b, pos), spaces)
    ELSE pos

kill_word_back(b, c) ==
  IF c = 0 THEN Ed(b, c)
  ELSE IF c > Len(b) \/ ~is_char_boundary(b, c) THEN EdPanic(b, c)
  ELSE LET byte_pos == SkipBack(b, SkipBack(b, c, TRUE), FALSE)
       IN Ed(SubSeq(b, 1, byte_pos) \o SubSeq(b, c + 1, Len(b)), byte_pos)

\* ------------------------------------------------------------------------
\* History
\* ------------------------------------------------------------------------

\* str::trim on a line of spaces and letters.
RECURSIVE Trim(_)
Trim(b) ==
  IF b = <<>> THEN b
  ELSE IF b[1] = "20" THEN Trim(Tail(b))
  ELSE IF b[Len(b)] = "20" THEN Trim(SubSeq(b, 1, Len(b) - 1))
  ELSE b

\* History::add (entries only; max_size = 1000 is not reached)
HistoryAdd(ents, l) ==
  IF Trim(l) = <<>> THEN ents
  ELSE IF ents # <<>> /\ ents[Len(ents)] = Trim(l) THEN ents
  ELSE Append(ents, Trim(l))

\* History::prev
HistoryPrev(nav, ents) ==
  IF nav > 0 THEN [some |-> TRUE, nav |-> nav - 1, entry |-> ents[nav]]
  ELSE [some |-> FALSE, nav |-> nav, entry |-> <<>>]

\* A History::next that hands back an empty line at the end.
HistoryNextNoRestore(nav, ents, saved) ==
  IF nav < Len(ents)
    THEN [some |-> TRUE, nav |-> nav + 1,
          entry |-> IF nav + 1 = Len(ents) THEN <<>> ELSE ents[nav + 2]]
    ELSE [some |-> FALSE, nav |-> nav, entry |-> <<>>]

\* History::next
HistoryNext(nav, ents, saved) ==
  IF nav < Len(ents)
    THEN [some |-> TRUE, nav |-> nav + 1,
          entry |-> IF nav + 1 = Len(ents) THEN saved ELSE ents[nav + 2]]
    ELSE [some |-> FALSE, nav |-> nav, entry |-> <<>>]

\* A Drop that leaves the terminal as it is.
RawModeDropKeeps(current, original) ==
  current

\* Drop for RawMode: tcsetattr(fd, TCSAFLUSH, &orig)
RawModeDrop(current, original) ==
  original

\* ------------------------------------------------------------------------
\* LineEditor::read_line and its caller
\* ------------------------------------------------------------------------

NoNav ==
  [valid |-> FALSE, start |-> <<>>, ups |-> 0, downs |-> 0]

InitEd ==
  /\ epc = "main"
  /\ buf = <<>>
  /\ cursor = 0
  /\ entries = <<>>
  /\ nav_index = 0
  /\ saved_buf = <<>>
  /\ termios = "cooked"
  /\ orig = "cooked"
  /\ hnav = NoNav

\* read_line up to its loop: the buffer is cleared, the navigation reset,
\* and RawMode::enable saves the attributes and sets raw mode.
ReadLineEnter ==
  /\ epc = "main"
  /\ buf' = <<>>
  /\ cursor' = 0
  /\ nav_index' = Len(entries)
  /\ saved_buf' = <<>>
  /\ orig' = termios
  /\ termios' = "raw"
  /\ epc' = "reading"
  /\ hnav' = [valid |-> TRUE, start |-> <<>>, ups |-> 0, downs |-> 0]
  /\ UNCHANGED entries

\* A key that edits the line: the operation's result r becomes the buffer
\* and the cursor; a panic unwinds through the RawMode guard.
Edit(r) ==
  /\ epc = "reading"
  /\ IF r.panic
       THEN /\ epc' = "panicked"
            /\ termios' = RawModeDrop(termios, orig)
            /\ UNCHANGED <<buf, cursor, hnav>>
       ELSE /\ buf' = r.buf
            /\ cursor' = r.cursor
            /\ hnav' = [valid |-> nav_index = Len(entries), start |-> r.buf,
                        ups |-> 0, downs |-> 0]
            /\ UNCHANGED <<epc, termios>>
  /\ UNCHANGED <<entries, nav_index, saved_buf, orig>>

KeyChar ==
  \E ch \in EditorChars :
    /\ Len(buf) + len_utf8(ch) <= MaxBuf
    /\ Edit(insert_char(buf, cursor, ch))

KeyBackspace ==
  Edit(delete_char_before(buf, cursor))

KeyDelete ==
  Edit(delete_char_at(buf, cursor))

KeyLeft ==
  Edit(move_left(buf, cursor))

KeyRight ==
  Edit(move_right(buf, cursor))

KeyHome ==
  Edit(move_home(buf, cursor))

KeyEnd ==
  Edit(move_end(buf, cursor))

KeyCtrlK ==
  Edit(kill_to_end(buf, cursor))

KeyCtrlU ==
  Edit(kill_to_start(buf, cursor))

KeyCtrlW ==
  Edit(kill_word_back(buf, cursor))

\* Ctrl+C: the line is dropped and the navigation reset.
KeyCtrlC ==
  /\ epc = "reading"
  /\ buf' = <<>>
  /\ cursor' = 0
  /\ nav_index' = Len(entries)
  /\ saved_buf' = <<>>
  /\ hnav' = [valid |-> TRUE, start |-> <<>>, ups |-> 0, downs |-> 0]
  /\ UNCHANGED <<epc, entries, termios, orig>>

\* Up: history_prev
KeyUp ==
  /\ epc = "reading"
  /\ LET saved == IF nav_index = Len(entries) THEN buf ELSE saved_buf
         r == HistoryPrev(nav_index, entries)
     IN /\ saved_buf' = saved
        /\ nav_index' = r.nav
        /\ IF r.some
             THEN buf' = r.entry /\ cursor' = Len(r.entry)
             ELSE UNCHANGED <<buf, cursor>>
  /\ hnav' = IF hnav.valid /\ hnav.downs = 0
               THEN [hnav EXCEPT !.ups = IF @ <= Len(entries) THEN @ + 1 ELSE @]
             ELSE IF nav_index = Len(entries)
               THEN [valid |-> TRUE, start |-> buf, ups |-> 1, downs |-> 0]
             ELSE NoNav
  /\ UNCHANGED <<epc, entries, termios, orig>>

\* Down: history_next
KeyDown ==
  /\ epc = "reading"
  /\ LET r == HistoryNext(nav_index, entries, saved_buf)
     IN /\ nav_index' = r.nav
        /\ IF r.some
             THEN buf' = r.entry /\ cursor' = Len(r.entry)
             ELSE UNCHANGED <<buf, cursor>>
  /\ hnav' = IF hnav.valid
               THEN [hnav EXCEPT !.downs = IF @ <= Len(entries) THEN @ + 1 ELSE @]
             ELSE NoNav
  /\ UNCHANGED <<epc, entries, saved_buf, termios, orig>>

\* Enter: read_line returns Some(buf); the RawMode guard is dropped.
KeyEnter ==
  /\ epc = "reading"
  /\ Len(HistoryAdd(entries, buf)) <= MaxHist
  /\ termios' = RawModeDrop(termios, orig)
  /\ epc' = "execute"
  /\ hnav' = NoNav
  /\ UNCHANGED <<buf, cursor, entries, nav_index, saved_buf, orig>>

\* Ctrl+D: on an empty buffer read_line returns None and the guard is
\* dropped; otherwise the key is ignored.
KeyCtrlD ==
  /\ epc = "reading"
  /\ IF buf = <<>>
       THEN /\ termios' = RawModeDrop(termios, orig)
            /\ epc' = "exited"
            /\ hnav' = NoNav
       ELSE UNCHANGED <<termios, epc, hnav>>
  /\ UNCHANGED <<buf, cursor, entries, nav_index, saved_buf, orig>>

\* main(): a blank line goes back to the prompt; any other line is added to
\* the history, parsed and executed.
ExecuteLine ==
  /\ epc = "execute"
  /\ entries' = HistoryAdd(entries, buf)
  /\ epc' = "main"
  /\ UNCHANGED <<buf, cursor, nav_index, saved_buf, termios, orig, hnav>>

NextEditor ==
  \/ ReadLineEnter /\ UNCHANGED notEdVars
  \/ KeyChar /\ UNCHANGED notEdVars
  \/ KeyBackspace /\ UNCHANGED notEdVars
  \/ KeyDelete /\ UNCHANGED notEdVars
  \/ KeyLeft /\ UNCHANGED notEdVars
  \/ KeyRight /\ UNCHANGED notEdVars
  \/ KeyHome /\ UNCHANGED notEdVars
  \/ KeyEnd /\ UNCHANGED notEdVars
  \/ KeyCtrlK /\ UNCHANGED notEdVars
  \/ KeyCtrlU /\ UNCHANGED notEdVars
  \/ KeyCtrlW /\ UNCHANGED notEdVars
  \/ KeyCtrlC /\ UNCHANGED notEdVars
  \/ KeyUp /\ UNCHANGED notEdVars
  \/ KeyDown /\ UNCHANGED notEdVars
  \/ KeyEnter /\ UNCHANGED notEdVars
  \/ KeyCtrlD /\ UNCHANGED notEdVars
  \/ ExecuteLine /\ UNCHANGED notEdVars

\* ------------------------------------------------------------------------
\* Functions studied on their own
\* ------------------------------------------------------------------------

\* No function is under study.
InitFn ==
  /\ fpc = "idle"
  /\ input = <<>>
  /\ output = <<>>

\* The shell at rest, for a function studied on its own.
InitRest ==
  InitList /\ interactive = TRUE /\ InitJob /\ InitRepl /\ InitEd

\* Sequences over S of lengths lo..hi.
SeqsOf(S, lo, hi) ==
  UNION { [1..k -> S] : k \in lo..hi }

\* ------------------------------------------------------------------------
\* expand_alias (main.rs)
\* ------------------------------------------------------------------------

\* A line and an alias value are their whitespace-separated words; "a" and
\* "b" may be alias names, "ls" is none.
AliasInputs ==
  [aliases : UNION { [D -> SeqsOf({"a", "b", "ls"}, 0, 2)] : D \in SUBSET {"a", "b"} },
   line : SeqsOf({"a", "b", "ls"}, 0, MaxLine - 1)]

\* One call of expand_alias up to its return or its recursive call: again
\* says that it calls itself, with `line` as the new line.
expand_alias(line, aliases) ==
  IF line = <<>> THEN [again |-> FALSE, line |-> line]
  ELSE LET first_word == Head(line)
           rest == Tail(line)
       IN IF first_word \in DOMAIN aliases
            THEN LET value == aliases[first_word]
                     expanded_first == IF value = <<>> THEN "" ELSE Head(value)
                 IN IF expanded_first = first_word
                      THEN [again |-> FALSE, line |-> line]
                      ELSE [again |-> TRUE, line |-> value \o rest]
            ELSE [again |-> FALSE, line |-> line]

\* main() calls expand_alias on the line read.
ExpandAliasCall ==
  /\ fpc = "call"
  /\ LET r == expand_alias(output, input.aliases)
     IN /\ output' = r.line
        /\ fpc' = IF ~r.again THEN "done"
                  ELSE IF Len(r.line) > MaxLine THEN "capped"
                  ELSE "call"
  /\ UNCHANGED input

NextAlias ==
  ExpandAliasCall /\ UNCHANGED notFnVars

InitAlias ==
  /\ InitRest
  /\ input \in AliasInputs
  /\ output = input.line
  /\ fpc = "call"

\* expand_alias runs on: a call that has begun is carried out.
SpecAlias ==
  InitAlias /\ [][NextAlias]_vars /\ WF_vars(NextAlias)

\* ------------------------------------------------------------------------
\* parse (parser.rs): from the tokens to the CommandList
\* ------------------------------------------------------------------------

\* A line is its tokens: "word" (Token::Word), "assign" (a Token::Word of the
\* form NAME=value), "pipe", "and" (And; Or is handled alike), "semi", "amp"
\* and "redir" (RedirectOut and the other redirection operators, each of which
\* takes the next token as its target). Words, assignments and redirections
\* are kept as the positions of their tokens in the line.
ParseTokens ==
  {"word", "assign", "pipe", "and", "semi", "amp", "redir"}

\* commands.push(Command { args, redirects, assignments }) with mem::take
PushCommand(st) ==
  [st EXCEPT !.commands = Append(@, [args |-> st.args, redirects |-> st.redirects,
                                     assignments |-> st.assignments]),
             !.args = <<>>, !.redirects = <<>>, !.assignments = <<>>]

\* items.push(ListItem { Pipeline { commands, background: bg }, connector })
PushItem(st, bg, connector) ==
  [st EXCEPT !.items = Append(@, [commands |-> st.commands, background |-> bg,
                                  connector |-> connector]),
             !.commands = <<>>, !.background = FALSE]

\* parse's `while let Some(result) = tokens.next()` from token i on, and what
\* follows the loop.
RECURSIVE ParseLoop(_, _, _)
ParseLoop(toks, i, st) ==
  LET Err(e) == [ok |-> FALSE, err |-> e, items |-> <<>>]
      nothing == st.args = <<>> /\ st.commands = <<>> /\ st.assignments = <<>>
      command == st.args # <<>> \/ st.assignments # <<>>
  IN IF i > Len(toks)
       THEN IF st.commands # <<>> /\ st.args = <<>> /\ st.redirects = <<>>
                 /\ st.assignments = <<>>
              THEN Err("IncompleteInput")
            ELSE IF ~command /\ st.redirects # <<>>
              THEN Err("EmptyPipelineSegment")
            ELSE LET s1 == IF command THEN PushCommand(st) ELSE st
                     s2 == IF s1.commands # <<>>
                             THEN PushItem(s1, s1.background, "Seq") ELSE s1
                 IN IF s2.items # <<>> /\ s2.items[Len(s2.items)].connector = "And"
                      THEN Err("IncompleteInput")
                      ELSE [ok |-> TRUE, err |-> "", items |-> s2.items]
     ELSE IF toks[i] = "assign" /\ st.args = <<>>
       THEN ParseLoop(toks, i + 1, [st EXCEPT !.assignments = Append(@, i)])
     ELSE IF toks[i] \in {"word", "assign"}
       THEN ParseLoop(toks, i + 1, [st EXCEPT !.args = Append(@, i)])
     ELSE IF toks[i] = "pipe"
       THEN IF ~command THEN Err("EmptyPipelineSegment")
            ELSE ParseLoop(toks, i + 1, PushCommand(st))
     ELSE IF toks[i] \in {"and", "semi"}
       THEN IF nothing
              THEN IF toks[i] = "semi" THEN ParseLoop(toks, i + 1, st)
                   ELSE Err("EmptyPipelineSegment")
              ELSE ParseLoop(toks, i + 1,
                     PushItem(IF command THEN PushCommand(st) ELSE st, st.background,
                              IF toks[i] = "and" THEN "And" ELSE "Seq"))
     ELSE IF toks[i] = "amp"
       THEN IF nothing THEN Err("EmptyPipelineSegment")
            ELSE ParseLoop(toks, i + 1,
                   PushItem(IF command THEN PushCommand(st) ELSE st, TRUE, "Seq"))
     ELSE IF i + 1 <= Len(toks) /\ toks[i + 1] \in {"word", "assign"}
       THEN ParseLoop(toks, i + 2, [st EXCEPT !.redirects = Append(@, i)])
     ELSE Err("MissingRedirectTarget")

parse(toks) ==
  ParseLoop(toks, 1, [items |-> <<>>, commands |-> <<>>, args |-> <<>>,
                      redirects |-> <<>>, assignments |-> <<>>, background |-> FALSE])

ParseCall ==
  /\ fpc = "call"
  /\ output' = parse(input)
  /\ fpc' = "done"
  /\ UNCHANGED input

NextParse ==
  ParseCall /\ UNCHANGED notFnVars

InitParse ==
  /\ InitRest
  /\ input \in SeqsOf(ParseTokens, 0, MaxToks)
  /\ output = <<>>
  /\ fpc = "call"

SpecParse ==
  InitParse /\ [][NextParse]_vars

\* ------------------------------------------------------------------------
\* ArithParser (parser.rs): the operators of $((...))
\* ------------------------------------------------------------------------

IntMin ==
  -(2 ^ (IntBits - 1))

IntMax ==
  2 ^ (IntBits - 1) - 1

\* Two's complement wrapping of a mathematical integer.
Wrap(x) ==
  ((x - IntMin) % (2 ^ IntBits)) + IntMin

\* Rust's `/` on integers truncates towards zero.
TruncDiv(a, b) ==
  LET q == (IF a < 0 THEN -a ELSE a) \div (IF b < 0 THEN -b ELSE b)
  IN IF (a < 0) = (b < 0) THEN q ELSE -q

\* What parse_expr / parse_term / parse_unary do with an operator and its
\* operand values: wrapping_add, wrapping_sub, wrapping_mul, wrapping_neg,
\* and `left /= right`, `left %= right` behind the test for a zero divisor.
\* The built-in `/` and `%` panic when the quotient overflows.
ArithEval(op, left, right) ==
  CASE op = "+" -> [panic |-> FALSE, value |-> Wrap(left + right)]
    [] op = "-" -> [panic |-> FALSE, value |-> Wrap(left - right)]
    [] op = "*" -> [panic |-> FALSE, value |-> Wrap(left * right)]
    [] op = "neg" -> [panic |-> FALSE, value |-> Wrap(-left)]
    [] op \in {"/", "%"} ->
         IF right = 0 THEN [panic |-> FALSE, value |-> 0]
         ELSE IF left = IntMin /\ right = -1 THEN [panic |-> TRUE, value |-> 0]
         ELSE IF op = "/" THEN [panic |-> FALSE, value |-> TruncDiv(left, right)]
         ELSE [panic |-> FALSE, value |-> left - right * TruncDiv(left, right)]

ArithCall ==
  /\ fpc = "call"
  /\ LET r == ArithEval(input.op, input.left, input.right)
     IN /\ output' = r.value
        /\ fpc' = IF r.panic THEN "panicked" ELSE "done"
  /\ UNCHANGED input

NextArith ==
  ArithCall /\ UNCHANGED notFnVars

InitArith ==
  /\ InitRest
  /\ input \in [op : {"+", "-", "*", "/", "%", "neg"}, left : IntMin..IntMax,
                right : IntMin..IntMax]
  /\ output = 0
  /\ fpc = "call"

SpecArith ==
  InitArith /\ [][NextArith]_vars

\* ------------------------------------------------------------------------
\* matches_pattern (glob.rs)
\* ------------------------------------------------------------------------

\* Patterns and names are their bytes: 97 `a`, 98 `b`, 42 `*`, 63 `?`,
\* 91 `[`, 93 `]`, 33 `!`, 45 `-`, 94 `^`. Offsets are 0-based as in the
\* source, so byte pi of pat is pat[pi + 1].
PatternBytes ==
  {97, 98, 42, 63, 91, 93, 33, 45}

\* The `while pi < plen && (pat[pi] != b']' || first_iter)` loop of a
\* character class, for the name's byte ch.
RECURSIVE ClassLoop(_, _, _, _, _)
ClassLoop(pat, pi, ch, first_iter, matched) ==
  IF pi < Len(pat) /\ (pat[pi + 1] # 93 \/ first_iter)
    THEN IF pi + 2 < Len(pat) /\ pat[pi + 2] = 45 /\ pat[pi + 3] # 93
           THEN LET lo == pat[pi + 1]
                    hi == pat[pi + 3]
                IN ClassLoop(pat, pi + 3, ch, FALSE,
                             matched \/ (lo <= ch /\ ch <= hi) \/ (hi <= ch /\ ch <= lo))
           ELSE ClassLoop(pat, pi + 1, ch, FALSE, matched \/ pat[pi + 1] = ch)
    ELSE [pi |-> pi, matched |-> matched]

RECURSIVE matches_recursive(_, _, _, _)
matches_recursive(pat, pi, nam, ni) ==
  LET plen == Len(pat)
      nlen == Len(nam)
  IN IF pi >= plen THEN ni = nlen
     ELSE IF pat[pi + 1] = 42
       THEN LET stars == { k \in pi..plen : \A m \in pi..(k - 1) : pat[m + 1] = 42 }
                pj == CHOOSE k \in stars : \A m \in stars : m <= k
            IN IF pj = plen THEN TRUE
               ELSE \E start \in ni..nlen : matches_recursive(pat, pj, nam, start)
     ELSE IF pat[pi + 1] = 63
       THEN IF ni >= nlen THEN FALSE ELSE matches_recursive(pat, pi + 1, nam, ni + 1)
     ELSE IF pat[pi + 1] = 91
       THEN IF ni >= nlen THEN FALSE
            ELSE LET negate == pi + 1 < plen /\ pat[pi + 2] \in {33, 94}
                     r == ClassLoop(pat, IF negate THEN pi + 2 ELSE pi + 1, nam[ni + 1],
                                    TRUE, FALSE)
                 IN IF r.pi < plen /\ pat[r.pi + 1] = 93
                      THEN IF (IF negate THEN ~r.matched ELSE r.matched)
                             THEN matches_recursive(pat, r.pi + 1, nam, ni + 1)
                             ELSE FALSE
                      ELSE FALSE
     ELSE IF ni >= nlen \/ nam[ni + 1] # pat[pi + 1] THEN FALSE
          ELSE matches_recursive(pat, pi + 1, nam, ni + 1)

\* A matcher that is content with a prefix of the name.
MatchesSomePrefix(pattern, name) ==
  \E k \in 0..Len(name) : matches_recursive(pattern, 0, SubSeq(name, 1, k), 0)

matches_pattern(pattern, name) ==
  matches_recursive(pattern, 0, name, 0)

MatchesPatternCall ==
  /\ fpc = "call"
  /\ output' = matches_pattern(input.pattern, input.name)
  /\ fpc' = "done"
  /\ UNCHANGED input

NextGlob ==
  MatchesPatternCall /\ UNCHANGED notFnVars

InitGlob ==
  /\ InitRest
  /\ input \in [pattern : SeqsOf(PatternBytes, 0, MaxPat),
                name : SeqsOf({97, 98}, 0, MaxName)]
  /\ output = FALSE
  /\ fpc = "call"

SpecGlob ==
  InitGlob /\ [][NextGlob]_vars

\* ------------------------------------------------------------------------
\* expand_braces (executor.rs)
\* ------------------------------------------------------------------------

\* Words are their bytes: 123 `{`, 125 `}`, 44 `,`, 46 `.`, 97 `a`, 98 `b`,
\* 49 `1`; 48..57 are the digits. Offsets are 0-based as in the source.
BraceBytes ==
  {123, 125, 44, 46, 97, 98, 49}

\* str::parse::<i64> on a string without a sign: -1 stands for Err.
RECURSIVE ParseDigits(_)
ParseDigits(str) ==
  IF str = <<>> \/ \E k \in 1..Len(str) : str[k] \notin 48..57 THEN -1
  ELSE IF Len(str) = 1 THEN str[1] - 48
  ELSE 10 * ParseDigits(SubSeq(str, 1, Len(str) - 1)) + (str[Len(str)] - 48)

\* format!("{:0>width$}", v): i64::to_string of v >= 0, zero-padded to width
RECURSIVE ToDigits(_, _)
ToDigits(v, width) ==
  LET head == IF v >= 10 \/ width > 1
                THEN ToDigits(v \div 10, IF width > 1 THEN width - 1 ELSE 0)
                ELSE <<>>
  IN Append(head, 48 + (v % 10))

\* A try_expand_range that takes any `x..y` for a range of x and y.
TryExpandRangeLoose(inner) ==
  LET seps == { k \in 1..(Len(inner) - 1) : inner[k] = 46 /\ inner[k + 1] = 46 }
  IN IF seps = {} THEN [some |-> FALSE, items |-> <<>>]
     ELSE LET sep == CHOOSE k \in seps : \A m \in seps : k <= m
          IN [some |-> TRUE,
              items |-> <<SubSeq(inner, 1, sep - 1), SubSeq(inner, sep + 2, Len(inner))>>]

try_expand_range(inner) ==
  LET None == [some |-> FALSE, items |-> <<>>]
      Dots(str) == { k \in 1..(Len(str) - 1) : str[k] = 46 /\ str[k + 1] = 46 }
      Alpha(c) == c \in 65..90 \/ c \in 97..122
      \* lo..=hi, or (lo..=hi).rev()
      Run(lo, hi, rev, Item(_)) ==
        [k \in 1..(hi - lo + 1) |-> Item(IF rev THEN hi - k + 1 ELSE lo + k - 1)]
  IN IF Dots(inner) = {} THEN None
     ELSE LET sep == CHOOSE k \in Dots(inner) : \A m \in Dots(inner) : k <= m
              start_s == SubSeq(inner, 1, sep - 1)
              end_s == SubSeq(inner, sep + 2, Len(inner))
              s_val == ParseDigits(start_s)
              e_val == ParseDigits(end_s)
              pad == IF (start_s # <<>> /\ start_s[1] = 48 /\ Len(start_s) > 1)
                        \/ (end_s # <<>> /\ end_s[1] = 48 /\ Len(end_s) > 1)
                       THEN IF Len(start_s) > Len(end_s) THEN Len(start_s) ELSE Len(end_s)
                       ELSE 0
              Chr(c) == <<c>>
              Num(v) == ToDigits(v, pad)
          IN IF Dots(end_s) # {} THEN None
             ELSE IF Len(start_s) = 1 /\ Len(end_s) = 1
                     /\ Alpha(start_s[1]) /\ Alpha(end_s[1])
               THEN [some |-> TRUE,
                     items |-> IF start_s[1] <= end_s[1]
                                 THEN Run(start_s[1], end_s[1], FALSE, Chr)
                                 ELSE Run(end_s[1], start_s[1], TRUE, Chr)]
             ELSE IF s_val = -1 \/ e_val = -1 THEN None
             ELSE [some |-> TRUE,
                   items |-> IF s_val <= e_val THEN Run(s_val, e_val, FALSE, Num)
                             ELSE Run(e_val, s_val, TRUE, Num)]

\* split_brace_commas: its loop at offset i, with the parts found so far.
RECURSIVE SplitLoop(_, _, _, _, _)
SplitLoop(content, i, start, depth, parts) ==
  IF i >= Len(content) THEN Append(parts, SubSeq(content, start + 1, Len(content)))
  ELSE IF content[i + 1] = 123 THEN SplitLoop(content, i + 1, start, depth + 1, parts)
  ELSE IF content[i + 1] = 125
    THEN SplitLoop(content, i + 1, start, IF depth > 0 THEN depth - 1 ELSE depth, parts)
  ELSE IF content[i + 1] = 44 /\ depth = 0
    THEN SplitLoop(content, i + 1, i + 1, depth, Append(parts, SubSeq(content, start + 1, i)))
  ELSE SplitLoop(content, i + 1, start, depth, parts)

split_brace_commas(content) ==
  SplitLoop(content, 0, 0, 0, <<>>)

\* expand_braces: its `while i < len` loop from offset i on.
RECURSIVE ExpandFrom(_, _)
ExpandFrom(word, i) ==
  LET len == Len(word)
      Depth(j) == Cardinality({ k \in i..j : word[k + 1] = 123 })
                  - Cardinality({ k \in i..j : word[k + 1] = 125 })
      closes == { j \in (i + 1)..(len - 1) : word[j + 1] = 125 /\ Depth(j) = 0 }
      RECURSIVE Each(_, _, _, _)
      \* results.extend(expand_braces(&combined)) for the items from k on
      Each(items, k, prefix, suffix) ==
        IF k > Len(items) THEN <<>>
        ELSE ExpandFrom(prefix \o items[k] \o suffix, 0) \o Each(items, k + 1, prefix, suffix)
  IN IF i >= len THEN <<word>>
     ELSE IF word[i + 1] = 123 /\ closes # {}
       THEN LET j == CHOOSE c \in closes : \A m \in closes : c <= m
                prefix == SubSeq(word, 1, i)
                inner == SubSeq(word, i + 2, j)
                suffix == SubSeq(word, j + 2, len)
                range == try_expand_range(inner)
                parts == split_brace_commas(inner)
            IN IF range.some THEN Each(range.items, 1, prefix, suffix)
               ELSE IF Len(parts) >= 2 THEN Each(parts, 1, prefix, suffix)
               ELSE ExpandFrom(word, i + 1)
     ELSE ExpandFrom(word, i + 1)

expand_braces(word) ==
  ExpandFrom(word, 0)

ExpandBracesCall ==
  /\ fpc = "call"
  /\ output' = expand_braces(input)
  /\ fpc' = "done"
  /\ UNCHANGED input

NextBrace ==
  ExpandBracesCall /\ UNCHANGED notFnVars

InitBrace ==
  /\ InitRest
  /\ input \in SeqsOf(BraceBytes, 0, MaxWord)
  /\ output = <<>>
  /\ fpc = "call"

SpecBrace ==
  InitBrace /\ [][NextBrace]_vars

\* ------------------------------------------------------------------------
\* execute_job (executor.rs): the close list of each child of a pipeline
\* ------------------------------------------------------------------------

\* close_fds_buf.len()
CloseFdsBufLen ==
  16

\* The `for j in 0..pipe_count` loop that collects the descriptors the child
\* is to close: every pipe end that is >= 0 and is not the child's stdin
\* (read ends) or stdout (write ends), while close_fds_buf has room.
CloseFds(ps, stdin_fd, stdout_fd) ==
  LET ends == [k \in 1..(2 * Len(ps)) |->
                 IF k % 2 = 1 THEN ps[(k + 1) \div 2].r ELSE ps[k \div 2].w]
      Wanted(k) == /\ ends[k] >= 0
                   /\ IF k % 2 = 1 THEN stdin_fd # ends[k] ELSE stdout_fd # ends[k]
      RECURSIVE Collect(_, _)
      Collect(k, acc) ==
        IF k > Len(ends) THEN acc
        ELSE Collect(k + 1, IF Wanted(k) /\ Len(acc) < CloseFdsBufLen
                              THEN Append(acc, ends[k]) ELSE acc)
  IN Collect(1, <<>>)

\* One turn of execute_job's `for i in 0..n` loop for a command that is
\* spawned: its stdin and stdout (a pipe end, or the descriptor a
\* redirection opened), the close list handed to spawn, and the ends the
\* parent closes afterwards.
PipelineSpawn ==
  /\ fpc = "call"
  /\ output.i < input
  /\ \E redir_in, redir_out \in BOOLEAN :
       LET i == output.i
           ps == output.pipes
           open == { ps[j].r : j \in 1..Len(ps) } \cup { ps[j].w : j \in 1..Len(ps) }
           in_fd == LowestFree(StdFds \cup open)
           out_fd == LowestFree(StdFds \cup open \cup (IF redir_in THEN {in_fd} ELSE {}))
           stdin_fd == IF redir_in THEN in_fd ELSE IF i > 0 THEN ps[i].r ELSE NoFd
           stdout_fd == IF redir_out THEN out_fd
                        ELSE IF i < input - 1 THEN ps[i + 1].w ELSE NoFd
       IN output' = [i |-> i + 1,
                     pipes |-> [j \in 1..Len(ps) |->
                                  [r |-> IF j = i THEN NoFd ELSE ps[j].r,
                                   w |-> IF j = i + 1 THEN NoFd ELSE ps[j].w]],
                     spawned |-> TRUE,
                     open |-> open \ {NoFd},
                     stdin_fd |-> stdin_fd,
                     stdout_fd |-> stdout_fd,
                     close |-> CloseFds(ps, stdin_fd, stdout_fd)]
  /\ fpc' = IF output.i + 1 = input THEN "done" ELSE "call"
  /\ UNCHANGED input

NextPipeline ==
  PipelineSpawn /\ UNCHANGED notFnVars

\* execute_job is called with a pipeline of n commands and has made its
\* n - 1 pipes.
InitPipeline ==
  /\ InitRest
  /\ input \in 1..MaxPipeline
  /\ output = [i |-> 0, pipes |-> MakePipes(input - 1, StdFds).pipes, spawned |-> FALSE,
               open |-> {}, stdin_fd |-> NoFd, stdout_fd |-> NoFd, close |-> <<>>]
  /\ fpc = "call"

SpecPipeline ==
  InitPipeline /\ [][NextPipeline]_vars

\* ------------------------------------------------------------------------
\* From parse to spawn: the argv of every command execute_job spawns
\* ------------------------------------------------------------------------

\* One turn of execute's loop over the items parse returned, for a line
\* whose words are external commands: the connector test, then
\* execute_pipeline, which sets the variables of a single foreground
\* assignment-only command itself and hands every other pipeline to
\* execute_job, where spawn is called with the args of each command.
\* spawned: the args of the spawn calls of this turn.
ExecuteParsedItem ==
  /\ fpc \in {"done", "execute"}
  /\ output.ok
  /\ LET cur == IF fpc = "done"
                  THEN [ok |-> TRUE, items |-> output.items, k |-> 1, last_status |-> 0,
                        spawned |-> <<>>]
                  ELSE output
         item == cur.items[cur.k]
         single == Len(item.commands) = 1 /\ ~item.background
         Turn(status, argvs) == [cur EXCEPT !.k = @ + 1, !.last_status = status,
                                            !.spawned = argvs]
     IN /\ cur.k <= Len(cur.items)
        /\ IF cur.k > 1 /\ ShouldSkip(cur.items[cur.k - 1].connector, cur.last_status)
             THEN output' = Turn(cur.last_status, <<>>)
           ELSE IF single /\ item.commands[1].args = <<>>
                   /\ item.commands[1].assignments # <<>>
             THEN output' = Turn(0, <<>>)
           ELSE \E status \in (IF item.background THEN {0} ELSE ExtStatuses) :
                  output' = Turn(status, [c \in 1..Len(item.commands) |->
                                            item.commands[c].args])
  /\ fpc' = "execute"
  /\ UNCHANGED input

NextSpawn ==
  \/ ParseCall /\ UNCHANGED notFnVars
  \/ ExecuteParsedItem /\ UNCHANGED notFnVars

SpecSpawn ==
  InitParse /\ [][NextSpawn]_vars

\* ------------------------------------------------------------------------
\* Loops (executor.rs) with break / continue (builtins.rs)
\* ------------------------------------------------------------------------

\* input is the depth D of a nest of `for` loops, each over MaxIters words;
\* the body of every loop but the innermost is the next loop, the body of
\* the innermost is one command: a plain one, `break N` or `continue N`.
\* output holds Shell.loop_depth, break_level and continue_level, the
\* iteration each loop is in, the position ("start", "body": a body is about
\* to run, "check": a body has returned to its loop, "returned": the
\* outermost loop has returned) and brk, the last body command's `break N`
\* (n, 0 if it was none) with the number of loops it has ended so far.

\* execute_for_block up to the first run of the body.
ForEnter ==
  /\ fpc = "call"
  /\ \/ output.at = "start"
     \/ output.at = "body" /\ output.loop_depth < input
  /\ output' = [output EXCEPT !.loop_depth = @ + 1,
                              !.iter = Append(@, 1),
                              !.at = "body"]
  /\ UNCHANGED <<fpc, input>>

\* builtin_break / builtin_continue with a count n > 0 inside a loop.
builtin_break(sh, kind, count) ==
  IF sh.loop_depth = 0 THEN sh
  ELSE IF kind = "break" THEN [sh EXCEPT !.break_level = count]
  ELSE [sh EXCEPT !.continue_level = count]

\* run_command_string on the innermost body.
BodyCommand ==
  /\ fpc = "call"
  /\ output.at = "body"
  /\ output.loop_depth = input
  /\ \/ output' = [output EXCEPT !.at = "check", !.brk = [n |-> 0, ended |-> 0]]
     \/ \E kind \in {"break", "continue"}, count \in 1..(MaxDepth + 1) :
          output' = [builtin_break(output, kind, count) EXCEPT
                       !.at = "check",
                       !.brk = [n |-> IF kind = "break" THEN count ELSE 0, ended |-> 0]]
  /\ UNCHANGED <<fpc, input>>

\* What a loop does when its body has returned: the break check, the
\* continue check, the next word or the end of the loop.
LoopCheck ==
  /\ fpc = "call"
  /\ output.at = "check"
  /\ LET depth == output.loop_depth
         Leave(sh) == [sh EXCEPT !.loop_depth = @ - 1,
                                 !.iter = SubSeq(@, 1, depth - 1),
                                 !.at = IF depth = 1 THEN "returned" ELSE "check"]
         Again(sh) == IF sh.iter[depth] < MaxIters
                        THEN [sh EXCEPT !.iter[depth] = @ + 1, !.at = "body"]
                        ELSE Leave(sh)
         r == IF output.break_level > 0
                THEN Leave([output EXCEPT !.break_level = @ - 1, !.brk.ended = @ + 1])
              ELSE IF output.continue_level > 0
                THEN IF output.continue_level - 1 > 0
                       THEN Leave([output EXCEPT !.continue_level = @ - 1])
                       ELSE Again([output EXCEPT !.continue_level = @ - 1])
              ELSE Again(output)
     IN /\ output' = r
        /\ fpc' = IF r.at = "returned" THEN "done" ELSE "call"
  /\ UNCHANGED input

NextLoop ==
  \/ ForEnter /\ UNCHANGED notFnVars
  \/ BodyCommand /\ UNCHANGED notFnVars
  \/ LoopCheck /\ UNCHANGED notFnVars

InitLoop ==
  /\ InitRest
  /\ input \in 1..MaxDepth
  /\ output = [loop_depth |-> 0, break_level |-> 0, continue_level |-> 0,
               iter |-> <<>>, at |-> "start", brk |-> [n |-> 0, ended |-> 0]]
  /\ fpc = "call"

SpecLoop ==
  InitLoop /\ [][NextLoop]_vars

\* ------------------------------------------------------------------------
\* read_line (editor.rs) on a terminal whose read fails
\* ------------------------------------------------------------------------

\* input is what libc::read on the terminal reports: "open" (a byte),
\* "eof" (0) or "error" (-1). fpc is "idle" at the top of read_line's loop
\* and "unknown" when read_key has returned Key::Unknown.

\* The terminal goes away (hang-up, or the shell is no longer in its
\* foreground process group): from then on every read reports the same.
TerminalFails ==
  /\ input = "open"
  /\ input' \in {"eof", "error"}
  /\ UNCHANGED <<fpc, output>>

\* read_byte returns None when read does not return 1, and read_key turns
\* that into Key::Unknown.
ReadKeyFails ==
  /\ epc = "reading"
  /\ fpc = "idle"
  /\ input # "open"
  /\ fpc' = "unknown"
  /\ UNCHANGED <<input, output>>

\* read_line: `Key::Unknown => continue`.
KeyUnknown ==
  /\ epc = "reading"
  /\ fpc = "unknown"
  /\ fpc' = "idle"
  /\ UNCHANGED <<input, output>>

\* A key arrives only while the terminal delivers bytes.
NextTerminal ==
  \/ (input = "open" \/ epc # "reading") /\ NextEditor
  \/ TerminalFails /\ UNCHANGED notFnVars
  \/ ReadKeyFails /\ UNCHANGED notFnVars
  \/ KeyUnknown /\ UNCHANGED notFnVars

InitTerminal ==
  /\ InitRest
  /\ input = "open"
  /\ output = <<>>
  /\ fpc = "idle"

\* The shell's own steps are taken: a read that fails returns at once.
SpecTerminal ==
  /\ InitTerminal
  /\ [][NextTerminal]_vars
  /\ WF_vars((ReadKeyFails \/ KeyUnknown) /\ UNCHANGED notFnVars)

\* ------------------------------------------------------------------------
\* Specifications
\* ------------------------------------------------------------------------

InitListSpec ==
  InitList /\ InitJob /\ InitRepl /\ InitEd /\ InitFn

InitJobSpec ==
  InitList /\ interactive = TRUE /\ InitJob /\ InitRepl /\ InitEd /\ InitFn

\* execute_job and its children when the shell runs on and a running child
\* exits or stops in the end; nobody is bound to signal a stopped child.
SpecJobFair ==
  /\ InitJobSpec
  /\ [][NextJob]_vars
  /\ WF_vars((JobLoopStep \/ JobAfterLoop \/ JobErrWait \/ JobFgWait \/ JobReturn)
             /\ UNCHANGED notJobVars)
  /\ WF_vars((ChildExit \/ ChildStop) /\ UNCHANGED notJobVars)

\* The command-list loop, with execute_job seen through its return status.
SpecList ==
  InitListSpec /\ [][NextList]_vars

\* execute_job and the children it spawns, under the interactive shell.
SpecJob ==
  InitJobSpec /\ [][NextJob]_vars

InitReplSpec ==
  InitList /\ interactive = TRUE /\ InitJob /\ InitRepl /\ InitEd /\ InitFn

\* The interactive shell: prompt, plain pipelines, fg, bg and wait.
SpecRepl ==
  InitReplSpec /\ [][NextRepl]_vars

\* The operations of the job table, in any order.
SpecTable ==
  InitReplSpec /\ [][NextTable]_vars

\* The line editor under main()'s loop.
SpecEditor ==
  InitReplSpec /\ [][NextEditor]_vars

\* ------------------------------------------------------------------------
\* Properties of execute_job (SpecJob)
\* ------------------------------------------------------------------------

\* Exit code of a terminated process: its exit code, or 128 + signal.
ExitCodeOf(raw) ==
  IF WIFEXITED(raw) THEN WEXITSTATUS(raw) ELSE 128 + WTERMSIG(raw)

\* C3: a foreground pipeline of two or more commands that is not stopped
\* returns the exit code of its last command, which has terminated.
C3_ForegroundStatusIsLastCommand ==
  (jpc = "returned" /\ ~background /\ call.cause = "none" /\ n >= 2 /\ ~call.stopped)
    => /\ procs[pids[n]].state \in {"zombie", "reaped"}
       /\ ret = ExitCodeOf(procs[pids[n]].raw)

\* C4: from give_terminal_to on, while a process of the foreground pipeline
\* is running and the pipeline has not stopped, the terminal's foreground
\* process group is the pipeline's.
C4_TerminalHeldWhileRunning ==
  (/\ call.given
   /\ \E q \in 1..Len(pids) : procs[pids[q]].state = "running"
   /\ \A q \in 1..Len(pids) : procs[pids[q]].state # "stopped")
    => tty = pgid

\* C6: when execute_job returns, the shell has the descriptors open that
\* it had when execute_job was called.
C6_DescriptorsRestored ==
  jpc = "returned" => openFds = call.fds0

\* C7: when the pipeline of a command with inline assignments has finished,
\* the assigned variable has the value it had before.
C7_AssignmentsRestored ==
  (jpc = "returned" /\ call.assigned) => env = call.env0

\* C9: once a redirect file of command i could not be opened, processes
\* exist for the commands before i only, no job was added, and execute_job
\* returns 1.
C9_RedirectFailureAborts ==
  call.cause = "redirect" =>
    /\ call.spawnedFor = 1..(call.failAt - 1)
    /\ nextPid = call.pid0 + (call.failAt - 1)
    /\ Len(jobs) = call.njobs0
    /\ jpc \in {"after", "errwait", "returned"}
    /\ jpc = "returned" => ret = 1

\* C9 witness: the second command's redirect failed and execute_job returned.
C9_Witness ==
  /\ jpc = "returned"
  /\ call.cause = "redirect"
  /\ call.failAt = 2
  /\ Len(pids) = 1

\* C10: when execute_job returns after the spawn of command i failed, every
\* process spawned for the commands before i has been reaped, and the status
\* is 127 for ENOENT, 126 for EACCES, 1 for another errno.
C10_SpawnFailureReaps ==
  (jpc = "returned" /\ call.cause = "spawn") =>
    /\ Len(pids) = call.failAt - 1
    /\ \A p \in DOMAIN procs : p >= call.pid0 => procs[p].state = "reaped"
    /\ ret = (IF call.errno = ENOENT THEN 127
              ELSE IF call.errno = EACCES THEN 126 ELSE 1)

\* C10 witness: the third command could not be executed (EACCES); the two
\* processes before it were reaped.
C10_Witness ==
  /\ jpc = "returned"
  /\ call.cause = "spawn"
  /\ call.errno = EACCES
  /\ call.failAt = 3
  /\ \A q \in 1..2 : procs[pids[q]].state = "reaped"

\* C17: with pipefail on, a foreground pipeline of two or more commands, all
\* of which have terminated, returns the exit code of its leftmost command
\* that exited non-zero, and 0 when every command exited 0.
C17_PipefailLeftmostNonZero ==
  (/\ jpc = "returned" /\ set_pipefail /\ ~background /\ call.cause = "none"
   /\ n >= 2 /\ ~call.stopped
   /\ \A q \in 1..n : procs[pids[q]].state \in {"zombie", "reaped"})
    => LET S == { q \in 1..n : ExitCodeOf(procs[pids[q]].raw) # 0 }
       IN ret = (IF S = {} THEN 0
                 ELSE ExitCodeOf(procs[pids[CHOOSE q \in S : \A m \in S : q <= m]].raw))

\* ------------------------------------------------------------------------
\* Properties of the interactive shell (SpecRepl)
\* ------------------------------------------------------------------------

\* C11: whenever the loop of main() is in read_line, the terminal's
\* foreground process group is the shell's own.
C11_ShellOwnsTerminalAtPrompt ==
  spc = "read" => tty = ShellPgid

\* C11 witness: the prompt is read after a job has left the table and while
\* a stopped job is in it.
C11_Witness ==
  /\ spc = "read"
  /\ gone # {}
  /\ \E j \in 1..Len(jobs) : JobStatus(jobs[j]).kind = "Stopped"

\* C12: every job that left the table was Done, with none of its processes
\* alive, and no job has had its Done notification printed twice.
C12_OnlyDoneJobsLeave ==
  /\ \A g \in gone : g.kind = "Done" /\ ~g.live
  /\ \A a, b \in 1..Len(notes) : a # b => notes[a].pgid # notes[b].pgid

\* C12 witness: one job left the table notified at the prompt, another left
\* it through fg or wait %N without a notification.
C12_Witness ==
  /\ \E k \in 1..Len(notes) : notes[k].at = "prompt"
  /\ \E g \in gone : \A k \in 1..Len(notes) : notes[k].pgid # g.pgid

\* reap_jobs has just returned and every child process has exited.
ReapedAllExited ==
  /\ spc \in {"notify", "exec"}
  /\ procs # <<>>
  /\ \A p \in DOMAIN procs : procs[p].state = "reaped"

\* C13 as claimed: after reap_jobs on a shell all of whose children have
\* exited the table holds no Done job that is not notified, and no process
\* entry that is not completed.
C13_NoDoneUnnotifiedAfterReap ==
  ReapedAllExited =>
    /\ \A j \in 1..Len(jobs) : ~(JobStatus(jobs[j]).kind = "Done" /\ ~jobs[j].notified)
    /\ \A j \in 1..Len(jobs) : \A q \in 1..Len(jobs[j].processes) :
         jobs[j].processes[q].completed

\* C13 amended: after reap_jobs on a shell all of whose children have
\* exited every process entry of the table is completed and no job is
\* Running.
C13_AllCompletedAfterReap ==
  ReapedAllExited =>
    \A j \in 1..Len(jobs) :
      /\ \A q \in 1..Len(jobs[j].processes) : jobs[j].processes[q].completed
      /\ JobStatus(jobs[j]).kind # "Running"

\* C13 witness: reap_jobs has returned at the top of the loop, the children
\* have all exited, and a Done job waits for its notification.
C13_Witness ==
  /\ ReapedAllExited
  /\ spc = "notify"
  /\ \E j \in 1..Len(jobs) :
       /\ JobStatus(jobs[j]).kind = "Done" /\ ~jobs[j].notified
       /\ Len(jobs[j].processes) = 2

\* C14: every Done notification is printed by the notify step before the
\* prompt.
C14_NotifiedOnlyAtPrompt ==
  \A k \in 1..Len(notes) : notes[k].at = "prompt"

\* ------------------------------------------------------------------------
\* Properties of the job table (SpecTable)
\* ------------------------------------------------------------------------

JobIds(js) ==
  { js[j].id : j \in 1..Len(js) }

\* C15: the jobs of the table have pairwise distinct ids >= 1, and every
\* insert gives the new job the smallest positive integer that is not the
\* id of a job in the table.
C15_SmallestUnusedId ==
  /\ [](\A a, b \in 1..Len(jobs) :
          jobs[a].id >= 1 /\ (a # b => jobs[a].id # jobs[b].id))
  /\ [][Len(jobs') = Len(jobs) + 1 =>
          LET id == jobs'[Len(jobs')].id
          IN /\ id >= 1
             /\ id \notin JobIds(jobs)
             /\ \A smaller \in 1..(id - 1) : smaller \in JobIds(jobs)]_vars

\* C15 witness: id 2 was freed and given to the job inserted after job 3.
C15_Witness ==
  /\ Len(jobs) = 3
  /\ jobs[1].id = 1 /\ jobs[2].id = 3 /\ jobs[3].id = 2

\* C16: a job is Stopped when the last report for one of its processes was a
\* stop; otherwise Done when every process has been reported terminated,
\* with the exit code of the last process of the pipeline; otherwise Running.
C16_DerivedStatus ==
  \A j \in 1..Len(jobs) :
    LET ps == jobs[j].processes
        st == JobStatus(jobs[j])
        anyStopped == \E q \in 1..Len(ps) : procs[ps[q].pid].state = "stopped"
        allDone == \A q \in 1..Len(ps) : procs[ps[q].pid].state = "reaped"
    IN /\ st.kind = (IF anyStopped THEN "Stopped"
                     ELSE IF allDone THEN "Done" ELSE "Running")
       /\ st.kind = "Done" => st.code = ExitCodeOf(procs[ps[Len(ps)].pid].raw)

\* C16 witness: a two-process job is Done; its first process was killed by a
\* signal and its last one exited with 3.
C16_Witness ==
  \E j \in 1..Len(jobs) :
    /\ Len(jobs[j].processes) = 2
    /\ JobStatus(jobs[j]) = [kind |-> "Done", code |-> 3]
    /\ WIFSIGNALED(jobs[j].processes[1].status)

\* ------------------------------------------------------------------------
\* Properties of the command-list loop (SpecList)
\* ------------------------------------------------------------------------

\* Result of the pipeline executed most recently before trace position k
\* (0, execute's initial value, when none was).
LastRan(tr, k) ==
  LET S == { j \in 1..(k - 1) : tr[j].ran }
  IN IF S = {} THEN 0 ELSE tr[CHOOSE j \in S : \A m \in S : m <= j].result

\* C1: the loop passes the items left to right; item 1 always runs; a later
\* item runs exactly when the previous item's connector is Seq, or And with
\* the most recently executed pipeline's status 0, or Or with that status
\* non-zero; a skipped item leaves the status as it was.
C1_ConnectorGating ==
  /\ Len(trace) <= Len(list)
  /\ \A k \in 1..Len(trace) :
       /\ trace[k].item = k
       /\ trace[k].name = list[k].name
       /\ k = 1 => trace[k].ran
       /\ k > 1 =>
            (trace[k].ran <=>
               \/ list[k - 1].connector = "Seq"
               \/ list[k - 1].connector = "And" /\ LastRan(trace, k) = 0
               \/ list[k - 1].connector = "Or" /\ LastRan(trace, k) # 0)
       /\ ~trace[k].ran => trace[k].status = LastRan(trace, k)
       /\ trace[k].ran => trace[k].status = trace[k].result
  /\ rpc = "execute" =>
       /\ idx = Len(trace) + 1
       /\ last_status = LastRan(trace, idx)

\* C1 witness: `a && b || c` with a failing: b was skipped, c ran.
C1_Witness ==
  /\ rpc = "execute"
  /\ Len(trace) = 3
  /\ list[1].connector = "And" /\ list[2].connector = "Or"
  /\ trace[1].ran /\ trace[1].result # 0
  /\ ~trace[2].ran
  /\ trace[3].ran

\* C2: a `$?` in a later item of a list prints the status of the pipeline
\* that completed immediately before that item ran (lists in which exit has
\* already run are C8's subject and are left out here).
C2_DollarQuestionIsPreviousStatus ==
  \A k \in 2..Len(trace) :
    (/\ trace[k].ran /\ trace[k].name = "echo" /\ trace[k].dollar
     /\ \A j \in 1..(k - 1) : trace[j].name # "exit")
      => trace[k].printed = <<LastRan(trace, k)>>

\* C5: executing a parsed line never panics.
C5_NoPanic ==
  rpc # "panicked"

\* C8: once the exit builtin has run no further pipeline of the list runs,
\* and the process exits with the status exit returned.
C8_NothingRunsAfterExit ==
  \A j \in 1..Len(trace) :
    (trace[j].ran /\ trace[j].name = "exit") =>
      /\ \A k \in (j + 1)..Len(trace) : ~trace[k].ran
      /\ rpc = "exited" => exit_code = trace[j].result


\* ------------------------------------------------------------------------
\* Properties of the line editor (SpecEditor)
\* ------------------------------------------------------------------------

\* C18: the terminal is in raw mode only inside read_line; once read_line
\* has returned (Enter, Ctrl+D on an empty buffer) the attributes saved on
\* entry are back, so no command is executed in raw mode.
C18_RawModeOnlyInReadLine ==
  /\ termios = "raw" => epc = "reading"
  /\ epc # "reading" => termios = "cooked" /\ termios = orig

\* read_line has returned a line that was executed, and later None on
\* Ctrl+D; the terminal is cooked again.
C18_Witness ==
  /\ epc = "exited"
  /\ Len(entries) >= 1
  /\ termios = "cooked"

\* C19: after any sequence of editor operations on a buffer with multi-byte
\* characters the cursor is a byte offset in 0..len on a UTF-8 character
\* boundary, and no operation panics.
C19_CursorOnCharBoundary ==
  /\ epc # "panicked"
  /\ cursor \in 0..Len(buf)
  /\ is_char_boundary(buf, cursor)

\* Two two-byte characters were inserted and the cursor went left twice.
C19_Witness ==
  /\ epc = "reading"
  /\ buf = <<"C3", "A9", "C3", "A9">>
  /\ cursor = 0

\* Where u presses of Up followed by d presses of Down lead from the end of
\* a history of len entries.
NavPosition(len, u, d) ==
  LET up == IF u >= len THEN 0 ELSE len - u
  IN IF up + d >= len THEN len ELSE up + d

\* C20: from the end of the history with line buffer B (hnav.start), Ups
\* followed by Downs show the entry at the position walked to, and back at
\* the end the buffer is B again; an Up at the oldest entry and a Down at
\* the end change neither the buffer nor the position.
C20_UpDownRestoresBuffer ==
  epc = "reading" /\ hnav.valid =>
    LET len == Len(entries)
        pos == NavPosition(len, hnav.ups, hnav.downs)
    IN /\ nav_index = pos
       /\ buf = IF pos = len THEN hnav.start ELSE entries[pos + 1]

\* Two Ups and two Downs over a history of two entries, from a line that
\* was not empty.
C20_Witness ==
  /\ epc = "reading"
  /\ hnav.valid
  /\ hnav.ups = 2
  /\ hnav.downs = 2
  /\ Len(entries) = 2
  /\ hnav.start # <<>>
  /\ buf = hnav.start
  /\ nav_index = 2


\* ------------------------------------------------------------------------
\* Properties of the functions studied on their own
\* ------------------------------------------------------------------------

\* C21: for every alias table and every line, alias expansion terminates,
\* also when aliases refer to each other.
C21_AliasExpansionTerminates ==
  <>(fpc \in {"done", "capped"})


\* C22: parse returns an error for every line in which some command segment
\* consists only of redirections, wherever the segment sits; so every Command
\* of an Ok result has args or assignments and carries only the redirections
\* written in its own segment.
C22_NoRedirectOnlySegment ==
  fpc = "done" =>
    LET toks == input
        Sep(p) == toks[p] \in {"pipe", "and", "semi", "amp"}
        SegmentOf(p) == Cardinality({ q \in 1..(p - 1) : Sep(q) })
        Target(p) == p > 1 /\ toks[p - 1] = "redir"
        Segments == 0..Cardinality({ q \in 1..Len(toks) : Sep(q) })
        In(k) == { p \in 1..Len(toks) : ~Sep(p) /\ SegmentOf(p) = k }
        RedirectOnly(k) == /\ \E p \in In(k) : toks[p] = "redir"
                           /\ \A p \in In(k) : toks[p] = "redir" \/ Target(p)
        Commands == { c \in UNION { { it.commands[j] : j \in 1..Len(it.commands) } :
                                    it \in { output.items[j] : j \in 1..Len(output.items) } } :
                      TRUE }
        Own(c) == LET w == IF c.args # <<>> THEN c.args[1] ELSE c.assignments[1]
                  IN \A j \in 1..Len(c.redirects) : SegmentOf(c.redirects[j]) = SegmentOf(w)
    IN /\ (\E k \in Segments : RedirectOnly(k)) => ~output.ok
       /\ output.ok => \A c \in Commands :
                         (c.args # <<>> \/ c.assignments # <<>>) /\ Own(c)


\* C23: for all operand values, +, -, *, /, % and unary minus yield an
\* integer of the machine's width, wrapped on overflow, and never abort the
\* shell; a division or remainder by 0 yields 0.
C23_ArithmeticWrapsNeverAborts ==
  /\ fpc # "panicked"
  /\ fpc = "done" =>
       /\ output \in IntMin..IntMax
       /\ input.op = "+" => output = Wrap(input.left + input.right)
       /\ input.op = "-" => output = Wrap(input.left - input.right)
       /\ input.op = "*" => output = Wrap(input.left * input.right)
       /\ input.op = "neg" => output = Wrap(-input.left)
       /\ input.op \in {"/", "%"} /\ input.right = 0 => output = 0
       /\ input.op = "/" /\ input.right # 0 =>
            output = Wrap(TruncDiv(input.left, input.right))
       /\ input.op = "%" /\ input.right # 0 =>
            output = Wrap(input.left - input.right * TruncDiv(input.left, input.right))


\* C24: matches_pattern(p, s) is true exactly when the whole of s is matched
\* by the whole of p: the elements of p, in order, consume s from its first
\* byte to its last (`*` any run of bytes, `?` one byte, a class one byte of
\* the class, any other byte itself); a prefix, suffix or substring of s
\* that matches is not enough.
C24_MatchIsAnchored ==
  fpc = "done" =>
    LET pat == input.pattern
        nam == input.name
        RECURSIVE Reach(_, _)
        \* the offsets of nam that the elements of pat from offset pi on can
        \* end at, starting from the offsets in P
        Reach(pi, P) ==
          IF pi >= Len(pat) THEN P
          ELSE IF pat[pi + 1] = 42
            THEN Reach(pi + 1, { j \in 0..Len(nam) : \E i \in P : i <= j })
          ELSE IF pat[pi + 1] = 63
            THEN Reach(pi + 1, { i + 1 : i \in { k \in P : k < Len(nam) } })
          ELSE IF pat[pi + 1] = 91
            THEN LET negate == pi + 1 < Len(pat) /\ pat[pi + 2] \in {33, 94}
                     Class(ch) == ClassLoop(pat, IF negate THEN pi + 2 ELSE pi + 1, ch,
                                            TRUE, FALSE)
                     end == Class(97).pi
                 IN IF end < Len(pat) /\ pat[end + 1] = 93
                      THEN Reach(end + 1,
                                 { i + 1 : i \in { k \in P : k < Len(nam)
                                     /\ (Class(nam[k + 1]).matched # negate) } })
                      ELSE {}
          ELSE Reach(pi + 1, { i + 1 : i \in { k \in P : k < Len(nam)
                                              /\ nam[k + 1] = pat[pi + 1] } })
    IN output = (Len(nam) \in Reach(0, {0}))

\* `*a` against `ab`: a prefix of the name matches, the name does not.
C24_Witness ==
  /\ fpc = "done"
  /\ input.pattern = <<42, 97>>
  /\ input.name = <<97, 98>>
  /\ output = FALSE


\* C25: for every word w expand_braces(w) returns, and what it returns is a
\* non-empty sequence; when w holds no valid brace group (no balanced
\* `{...}` around a comma list of two or more elements or around a range of
\* two letters or of two numbers) the result is the one-element sequence [w].
C25_BraceExpansionTotal ==
  LET w == input
      Count(b, lo, hi) == Cardinality({ k \in lo..hi : w[k] = b })
      Balanced(lo, hi) == /\ w[lo] = 123 /\ w[hi] = 125
                          /\ Count(123, lo, hi) = Count(125, lo, hi)
                          /\ \A k \in lo..(hi - 1) : Count(123, lo, k) > Count(125, lo, k)
      Letter(c) == c \in 65..90 \/ c \in 97..122
      Number(lo, hi) == lo <= hi /\ \A k \in lo..hi : w[k] \in 48..57
      CommaList(lo, hi) ==
        \E k \in (lo + 1)..(hi - 1) :
          w[k] = 44 /\ Count(123, lo + 1, k) = Count(125, lo + 1, k)
      Range(lo, hi) ==
        \E k \in (lo + 1)..(hi - 2) :
          /\ w[k] = 46 /\ w[k + 1] = 46
          /\ \/ k = lo + 2 /\ hi = k + 3 /\ Letter(w[lo + 1]) /\ Letter(w[k + 2])
             \/ Number(lo + 1, k - 1) /\ Number(k + 2, hi - 1)
      ValidGroup == \E lo \in 1..Len(w) : \E hi \in (lo + 1)..Len(w) :
                      Balanced(lo, hi) /\ (CommaList(lo, hi) \/ Range(lo, hi))
  IN /\ fpc = "call" => ENABLED ExpandBracesCall
     /\ fpc = "done" => /\ output # <<>>
                        /\ output = <<w>> \/ ValidGroup

\* `{a}{.}`: balanced braces, but neither a comma list nor a range.
C25_Witness ==
  /\ fpc = "done"
  /\ input = <<123, 97, 125, 123, 46, 125>>
  /\ output = <<input>>


\* C26: a pipeline of N commands has N - 1 pipes, and each child is spawned
\* with a close list holding every pipe end open in the parent at that time
\* other than the child's own stdin and stdout, so that no child inherits a
\* pipe end it does not use.
C26_CloseListComplete ==
  /\ Len(output.pipes) = input - 1
  /\ output.spawned =>
       { output.close[k] : k \in 1..Len(output.close) }
         = output.open \ {output.stdin_fd, output.stdout_fd}


\* C27: every command that reaches spawn has at least one argument word:
\* spawn is never called with an empty argv, also not for an assignment-only
\* command that is one stage of a pipeline or is put in the background.
C27_SpawnArgvNonEmpty ==
  fpc = "execute" =>
    \A c \in 1..Len(output.spawned) : output.spawned[c] # <<>>


\* C28: in a nest of D loops `break N` ends exactly min(N, D) loops, and
\* when the outermost loop has returned loop_depth is what it was before
\* the loop and break_level and continue_level are both 0.
C28_BreakEndsLoopsAndResets ==
  /\ output.brk.n > 0 /\ (output.at = "returned" \/ output.break_level = 0) =>
       output.brk.ended = IF output.brk.n < input THEN output.brk.n ELSE input
  /\ output.at = "returned" =>
       output.loop_depth = 0 /\ output.break_level = 0 /\ output.continue_level = 0


\* C30: when read on the terminal reports end-of-file or an error while
\* read_line is reading, read_line returns None and the REPL exits; the
\* read is not retried forever.
C30_ReadFailureEndsRepl ==
  (epc = "reading" /\ input \in {"eof", "error"}) ~> (epc = "exited")


\* C29: when a pipeline is aborted by a spawn or redirect error after some
\* of its commands were spawned, execute_job returns, even if a spawned
\* sibling stops instead of exiting.
C29_AbortedPipelineReturns ==
  (jpc = "errwait" /\ Len(pids) > 0) ~> (jpc = "returned")

====
